---- MODULE Spec2Model ----
(***************************************************************************)
(* The text diff engine of real-tools: computeDiff (line diff),            *)
(* computeInlineDiff (character diff) and getDiffStats, as they are        *)
(* written in src/src/components/FormBuilder/FormBuilder.tsx.              *)
(*                                                                         *)
(* A text is a sequence of one-character strings; "\n" is the line         *)
(* terminator.  Cursors are 0-based as in the source, so the element the   *)
(* source calls lines1[i] is lines1[i + 1] here.                           *)
(***************************************************************************)
EXTENDS Integers, Sequences, FiniteSets

VARIABLES text1, text2, op, segments, stats, loop, prev, iters,
          pdfFiles, previewFile, editingText, mode,
          romanMode, input, output, toast,
          uploads, clock, currentPage, totalPages, timer, renders,
          fields, exported

\* the arguments and results of the three functions
diffVars == <<text1, text2, op, segments, stats>>

\* a diff loop in progress: loop holds its cursors i and j and the segments
\* pushed so far, prev what loop held before the latest iteration, and
\* iters counts the iterations made
loopVars == <<loop, prev, iters>>

\* the state of the PDFEditor component (pdfFiles, previewFile, mode) and of
\* the PDFPreview it shows (editingText)
pdfVars == <<pdfFiles, previewFile, editingText, mode>>

\* the state of the RomanNumeral component, and the latest toast it showed
romanVars == <<romanMode, input, output, toast>>

\* the calls of handleFileSelect of PDFEditor that are waiting for page
\* counts, and the time Date.now() gives
uploadVars == <<uploads, clock>>

\* the pages of PDFPreview: its state currentPage and totalPages, the
\* setTimeout of its render effect, and the calls of renderPage in progress
previewVars == <<currentPage, totalPages, timer, renders>>

\* the fields of FormBuilder and the PDF generateFormPDF made of them
formVars == <<fields, exported>>

vars == <<diffVars, loopVars, pdfVars, romanVars, uploadVars, previewVars,
          formVars>>

----------------------------------------------------------------------------
(* Bounds of the input sets.                                               *)

\* longest text of the exhaustive input set Texts
MaxLen == 4
\* most lines of the edited text of InitEdit
MaxLines == 4
\* longest run of one character in a text of the input set RunTexts
MaxRun == 23
\* most lines of a text of InitSteps
MaxStepLines == 3
\* most text annotations of a file of InitPdf
MaxAnnotations == 2
\* most pages of a file picked for upload
MaxPages == 2
\* most calls of handleFileSelect in a behaviour of SpecFiles
MaxUploads == 2
\* most calls of renderPage that have not returned
MaxRenders == 2
\* most fields on the canvas of SpecForm
MaxFields == 13
\* the fields of SpecForm that may be of any type; later ones are lists
MaxMixed == 1
\* most fields on the canvas of SpecExport
MaxExported == 2
\* the greatest number typed into the converter in InitRoman
MaxNumber == 4001

NL == "\n"

\* characters of the exhaustive input set
Chars == {"a", "b", NL}
\* one-character lines of the line-oriented input set
LineChars == {"a", "b", "c", "x"}
\* one-character lines of the texts of InitSteps
StepChars == {"a", "b", "c"}

----------------------------------------------------------------------------
(* Built-ins of the language the source relies on.                         *)

RECURSIVE SplitFrom(_, _, _)
SplitFrom(text, k, cur) ==
    IF k > Len(text) THEN <<cur>>
    ELSE IF text[k] = NL THEN <<cur>> \o SplitFrom(text, k + 1, <<>>)
    ELSE SplitFrom(text, k + 1, Append(cur, text[k]))

\* Split as a splitter that drops a trailing empty line would have it
SplitDropsTrailingEmpty(text) ==
    LET ls == SplitFrom(text, 1, <<>>)
    IN  IF ls[Len(ls)] = <<>> THEN SubSeq(ls, 1, Len(ls) - 1) ELSE ls

\* text.split('\n'): always at least one line; "" splits to [""]
Split(text) == SplitFrom(text, 1, <<>>)

\* arr.slice(from)
Slice(arr, from) == SubSeq(arr, from + 1, Len(arr))

\* arr.indexOf(x): 0-based index of the first occurrence, -1 when absent
IndexOf(arr, x) ==
    IF \E k \in 1..Len(arr) : arr[k] = x
    THEN (CHOOSE k \in 1..Len(arr) :
              arr[k] = x /\ \A m \in 1..(k - 1) : arr[m] # x) - 1
    ELSE -1

\* str.indexOf(ch, from): absolute 0-based index of the first occurrence at
\* or after from, -1 when absent
StrIndexOf(str, ch, from) ==
    IF \E k \in (from + 1)..Len(str) : str[k] = ch
    THEN (CHOOSE k \in (from + 1)..Len(str) :
              str[k] = ch /\ \A m \in (from + 1)..(k - 1) : str[m] # ch) - 1
    ELSE -1

\* a DiffSegment
Seg(type, text) == [type |-> type, text |-> text]

----------------------------------------------------------------------------
(* computeDiff                                                             *)

\* ResolveMismatch with the paired substitution pushing only the removal
ResolveMismatchDropsAdded(lines1, lines2, st) ==
    LET i == st.i
        j == st.j
        nextMatchInText1 == IndexOf(Slice(lines1, i + 1), lines2[j + 1])
        nextMatchInText2 == IndexOf(Slice(lines2, j + 1), lines1[i + 1])
    IN
    IF nextMatchInText1 >= 0
       /\ (nextMatchInText2 < 0 \/ nextMatchInText1 < nextMatchInText2) THEN
        [i |-> i + 1, j |-> j,
         segments |-> Append(st.segments, Seg("removed", lines1[i + 1]))]
    ELSE IF nextMatchInText2 >= 0
            /\ (nextMatchInText1 < 0 \/ nextMatchInText2 < nextMatchInText1) THEN
        [i |-> i, j |-> j + 1,
         segments |-> Append(st.segments, Seg("added", lines2[j + 1]))]
    ELSE
        [i |-> i + 1, j |-> j + 1,
         segments |-> Append(st.segments, Seg("removed", lines1[i + 1]))]

\* ResolveMismatch taking a match in text2 at index 0 for no match
ResolveMismatchInsertAtZero(lines1, lines2, st) ==
    LET i == st.i
        j == st.j
        nextMatchInText1 == IndexOf(Slice(lines1, i + 1), lines2[j + 1])
        nextMatchInText2 == IndexOf(Slice(lines2, j + 1), lines1[i + 1])
    IN
    IF nextMatchInText1 >= 0
       /\ (nextMatchInText2 < 0 \/ nextMatchInText1 < nextMatchInText2) THEN
        [i |-> i + 1, j |-> j,
         segments |-> Append(st.segments, Seg("removed", lines1[i + 1]))]
    ELSE IF nextMatchInText2 > 0
            /\ (nextMatchInText1 < 0 \/ nextMatchInText2 < nextMatchInText1) THEN
        [i |-> i, j |-> j + 1,
         segments |-> Append(st.segments, Seg("added", lines2[j + 1]))]
    ELSE
        [i |-> i + 1, j |-> j + 1,
         segments |-> st.segments \o <<Seg("removed", lines1[i + 1]),
                                      Seg("added", lines2[j + 1])>>]

\* ResolveMismatch taking a match in text1 at index 0 for no match
ResolveMismatchDeleteAtZero(lines1, lines2, st) ==
    LET i == st.i
        j == st.j
        nextMatchInText1 == IndexOf(Slice(lines1, i + 1), lines2[j + 1])
        nextMatchInText2 == IndexOf(Slice(lines2, j + 1), lines1[i + 1])
    IN
    IF nextMatchInText1 > 0
       /\ (nextMatchInText2 < 0 \/ nextMatchInText1 < nextMatchInText2) THEN
        [i |-> i + 1, j |-> j,
         segments |-> Append(st.segments, Seg("removed", lines1[i + 1]))]
    ELSE IF nextMatchInText2 >= 0
            /\ (nextMatchInText1 < 0 \/ nextMatchInText2 < nextMatchInText1) THEN
        [i |-> i, j |-> j + 1,
         segments |-> Append(st.segments, Seg("added", lines2[j + 1]))]
    ELSE
        [i |-> i + 1, j |-> j + 1,
         segments |-> st.segments \o <<Seg("removed", lines1[i + 1]),
                                      Seg("added", lines2[j + 1])>>]

\* ResolveMismatch choosing the farther of two future matches
ResolveMismatchFarthest(lines1, lines2, st) ==
    LET i == st.i
        j == st.j
        nextMatchInText1 == IndexOf(Slice(lines1, i + 1), lines2[j + 1])
        nextMatchInText2 == IndexOf(Slice(lines2, j + 1), lines1[i + 1])
    IN
    IF nextMatchInText1 >= 0
       /\ (nextMatchInText2 < 0 \/ nextMatchInText1 > nextMatchInText2) THEN
        [i |-> i + 1, j |-> j,
         segments |-> Append(st.segments, Seg("removed", lines1[i + 1]))]
    ELSE IF nextMatchInText2 >= 0
            /\ (nextMatchInText1 < 0 \/ nextMatchInText2 > nextMatchInText1) THEN
        [i |-> i, j |-> j + 1,
         segments |-> Append(st.segments, Seg("added", lines2[j + 1]))]
    ELSE
        [i |-> i + 1, j |-> j + 1,
         segments |-> st.segments \o <<Seg("removed", lines1[i + 1]),
                                      Seg("added", lines2[j + 1])>>]

\* the last branch of the loop body: the current lines differ
ResolveMismatch(lines1, lines2, st) ==
    LET i == st.i
        j == st.j
        nextMatchInText1 == IndexOf(Slice(lines1, i + 1), lines2[j + 1])
        nextMatchInText2 == IndexOf(Slice(lines2, j + 1), lines1[i + 1])
    IN
    IF nextMatchInText1 >= 0
       /\ (nextMatchInText2 < 0 \/ nextMatchInText1 < nextMatchInText2) THEN
        [i |-> i + 1, j |-> j,
         segments |-> Append(st.segments, Seg("removed", lines1[i + 1]))]
    ELSE IF nextMatchInText2 >= 0
            /\ (nextMatchInText1 < 0 \/ nextMatchInText2 < nextMatchInText1) THEN
        [i |-> i, j |-> j + 1,
         segments |-> Append(st.segments, Seg("added", lines2[j + 1]))]
    ELSE
        [i |-> i + 1, j |-> j + 1,
         segments |-> st.segments \o <<Seg("removed", lines1[i + 1]),
                                      Seg("added", lines2[j + 1])>>]

\* DiffStep with the j++ of the identical-lines branch left out
DiffStepForgetsJ(lines1, lines2, st) ==
    LET i == st.i
        j == st.j
    IN
    IF i >= Len(lines1) THEN
        [i |-> i, j |-> j + 1,
         segments |-> Append(st.segments, Seg("added", lines2[j + 1]))]
    ELSE IF j >= Len(lines2) THEN
        [i |-> i + 1, j |-> j,
         segments |-> Append(st.segments, Seg("removed", lines1[i + 1]))]
    ELSE IF lines1[i + 1] = lines2[j + 1] THEN
        [i |-> i + 1, j |-> j,
         segments |-> Append(st.segments, Seg("unchanged", lines1[i + 1]))]
    ELSE ResolveMismatch(lines1, lines2, st)

\* DiffStep comparing the current lines by their lengths only
DiffStepByLength(lines1, lines2, st) ==
    LET i == st.i
        j == st.j
    IN
    IF i >= Len(lines1) THEN
        [i |-> i, j |-> j + 1,
         segments |-> Append(st.segments, Seg("added", lines2[j + 1]))]
    ELSE IF j >= Len(lines2) THEN
        [i |-> i + 1, j |-> j,
         segments |-> Append(st.segments, Seg("removed", lines1[i + 1]))]
    ELSE IF Len(lines1[i + 1]) = Len(lines2[j + 1]) THEN
        [i |-> i + 1, j |-> j + 1,
         segments |-> Append(st.segments, Seg("unchanged", lines1[i + 1]))]
    ELSE ResolveMismatch(lines1, lines2, st)

\* one iteration of the while loop of computeDiff
DiffStep(lines1, lines2, st) ==
    LET i == st.i
        j == st.j
    IN
    IF i >= Len(lines1) THEN
        [i |-> i, j |-> j + 1,
         segments |-> Append(st.segments, Seg("added", lines2[j + 1]))]
    ELSE IF j >= Len(lines2) THEN
        [i |-> i + 1, j |-> j,
         segments |-> Append(st.segments, Seg("removed", lines1[i + 1]))]
    ELSE IF lines1[i + 1] = lines2[j + 1] THEN
        [i |-> i + 1, j |-> j + 1,
         segments |-> Append(st.segments, Seg("unchanged", lines1[i + 1]))]
    ELSE ResolveMismatch(lines1, lines2, st)

RECURSIVE DiffLoop(_, _, _)
\* while (i < lines1.length || j < lines2.length) { ... } return segments
DiffLoop(lines1, lines2, st) ==
    IF st.i < Len(lines1) \/ st.j < Len(lines2)
    THEN DiffLoop(lines1, lines2, DiffStep(lines1, lines2, st))
    ELSE st.segments

computeDiff(t1, t2) ==
    DiffLoop(Split(t1), Split(t2), [i |-> 0, j |-> 0, segments |-> <<>>])

----------------------------------------------------------------------------
(* computeInlineDiff                                                       *)

\* CommonLen with the run never extended past its first character
CommonLenOne(s1, s2, i, j, commonLen) == 1

RECURSIVE CommonLen(_, _, _, _, _)
\* the inner while loop: the length of the equal run starting at (i, j)
CommonLen(s1, s2, i, j, commonLen) ==
    IF /\ i + commonLen < Len(s1)
       /\ j + commonLen < Len(s2)
       /\ s1[i + commonLen + 1] = s2[j + commonLen + 1]
    THEN CommonLen(s1, s2, i, j, commonLen + 1)
    ELSE commonLen

\* InlineMismatch with the j++ of the insertion branch left out
InlineMismatchForgetsJ(s1, s2, st) ==
    LET i == st.i
        j == st.j
        nextMatchInText1 == StrIndexOf(s1, s2[j + 1], i + 1)
        nextMatchInText2 == StrIndexOf(s2, s1[i + 1], j + 1)
    IN
    IF nextMatchInText1 >= 0
       /\ (nextMatchInText2 < 0 \/ nextMatchInText1 - i < nextMatchInText2 - j) THEN
        [i |-> i + 1, j |-> j, brk |-> FALSE,
         segments |-> Append(st.segments, Seg("removed", <<s1[i + 1]>>))]
    ELSE IF nextMatchInText2 >= 0
            /\ (nextMatchInText1 < 0 \/ nextMatchInText2 - j < nextMatchInText1 - i) THEN
        [i |-> i, j |-> j, brk |-> FALSE,
         segments |-> Append(st.segments, Seg("added", <<s2[j + 1]>>))]
    ELSE
        [i |-> i + 1, j |-> j + 1, brk |-> FALSE,
         segments |-> st.segments \o <<Seg("removed", <<s1[i + 1]>>),
                                      Seg("added", <<s2[j + 1]>>)>>]

\* InlineMismatch comparing the positions of the next matches, not their
\* distances from the cursors
InlineMismatchAbsolute(s1, s2, st) ==
    LET i == st.i
        j == st.j
        nextMatchInText1 == StrIndexOf(s1, s2[j + 1], i + 1)
        nextMatchInText2 == StrIndexOf(s2, s1[i + 1], j + 1)
    IN
    IF nextMatchInText1 >= 0
       /\ (nextMatchInText2 < 0 \/ nextMatchInText1 < nextMatchInText2) THEN
        [i |-> i + 1, j |-> j, brk |-> FALSE,
         segments |-> Append(st.segments, Seg("removed", <<s1[i + 1]>>))]
    ELSE IF nextMatchInText2 >= 0
            /\ (nextMatchInText1 < 0 \/ nextMatchInText2 < nextMatchInText1) THEN
        [i |-> i, j |-> j + 1, brk |-> FALSE,
         segments |-> Append(st.segments, Seg("added", <<s2[j + 1]>>))]
    ELSE
        [i |-> i + 1, j |-> j + 1, brk |-> FALSE,
         segments |-> st.segments \o <<Seg("removed", <<s1[i + 1]>>),
                                      Seg("added", <<s2[j + 1]>>)>>]

\* the last branch of the loop body: the current characters differ
InlineMismatch(s1, s2, st) ==
    LET i == st.i
        j == st.j
        nextMatchInText1 == StrIndexOf(s1, s2[j + 1], i + 1)
        nextMatchInText2 == StrIndexOf(s2, s1[i + 1], j + 1)
    IN
    IF nextMatchInText1 >= 0
       /\ (nextMatchInText2 < 0 \/ nextMatchInText1 - i < nextMatchInText2 - j) THEN
        [i |-> i + 1, j |-> j, brk |-> FALSE,
         segments |-> Append(st.segments, Seg("removed", <<s1[i + 1]>>))]
    ELSE IF nextMatchInText2 >= 0
            /\ (nextMatchInText1 < 0 \/ nextMatchInText2 - j < nextMatchInText1 - i) THEN
        [i |-> i, j |-> j + 1, brk |-> FALSE,
         segments |-> Append(st.segments, Seg("added", <<s2[j + 1]>>))]
    ELSE
        [i |-> i + 1, j |-> j + 1, brk |-> FALSE,
         segments |-> st.segments \o <<Seg("removed", <<s1[i + 1]>>),
                                      Seg("added", <<s2[j + 1]>>)>>]

\* InlineStep with the equal run sliced as text1.slice(i, commonLen)
InlineStepSliceByLength(s1, s2, st) ==
    LET i == st.i
        j == st.j
    IN
    IF i >= Len(s1) THEN
        [i |-> i, j |-> j, brk |-> TRUE,
         segments |-> Append(st.segments, Seg("added", Slice(s2, j)))]
    ELSE IF j >= Len(s2) THEN
        [i |-> i, j |-> j, brk |-> TRUE,
         segments |-> Append(st.segments, Seg("removed", Slice(s1, i)))]
    ELSE IF s1[i + 1] = s2[j + 1] THEN
        LET commonLen == CommonLen(s1, s2, i, j, 0)
        IN  IF commonLen > 0 THEN
                [i |-> i + commonLen, j |-> j + commonLen, brk |-> FALSE,
                 segments |-> Append(st.segments,
                                     Seg("unchanged", SubSeq(s1, i + 1, commonLen)))]
            ELSE st
    ELSE InlineMismatch(s1, s2, st)

\* one iteration of the while loop of computeInlineDiff; brk records the
\* break statement, which leaves both cursors where they are
InlineStep(s1, s2, st) ==
    LET i == st.i
        j == st.j
    IN
    IF i >= Len(s1) THEN
        [i |-> i, j |-> j, brk |-> TRUE,
         segments |-> Append(st.segments, Seg("added", Slice(s2, j)))]
    ELSE IF j >= Len(s2) THEN
        [i |-> i, j |-> j, brk |-> TRUE,
         segments |-> Append(st.segments, Seg("removed", Slice(s1, i)))]
    ELSE IF s1[i + 1] = s2[j + 1] THEN
        LET commonLen == CommonLen(s1, s2, i, j, 0)
        IN  IF commonLen > 0 THEN
                [i |-> i + commonLen, j |-> j + commonLen, brk |-> FALSE,
                 segments |-> Append(st.segments,
                                     Seg("unchanged", SubSeq(s1, i + 1, i + commonLen)))]
            ELSE st
    ELSE InlineMismatch(s1, s2, st)

RECURSIVE InlineLoop(_, _, _)
InlineLoop(s1, s2, st) ==
    IF ~st.brk /\ (st.i < Len(s1) \/ st.j < Len(s2))
    THEN InlineLoop(s1, s2, InlineStep(s1, s2, st))
    ELSE st.segments

computeInlineDiff(t1, t2) ==
    InlineLoop(t1, t2, [i |-> 0, j |-> 0, brk |-> FALSE, segments |-> <<>>])

----------------------------------------------------------------------------
(* getDiffStats                                                            *)

RECURSIVE Pow2(_)
Pow2(n) == IF n = 0 THEN 1 ELSE 2 * Pow2(n - 1)

RECURSIVE Pow2Mod(_, _)
\* 2^n modulo b
Pow2Mod(n, b) == IF n = 0 THEN 1 % b ELSE (2 * Pow2Mod(n - 1, b)) % b

RECURSIVE Log2Up(_, _, _)
Log2Up(a, b, e) == IF Pow2(e + 1) * b <= a THEN Log2Up(a, b, e + 1) ELSE e

RECURSIVE Log2Down(_, _, _)
Log2Down(a, b, e) == IF a * Pow2(-e) < b THEN Log2Down(a, b, e - 1) ELSE e

\* the binary exponent of the positive quotient a / b: the e with
\* 2^e <= a / b < 2^(e + 1)
Exponent(a, b) == IF a >= b THEN Log2Up(a, b, 0) ELSE Log2Down(a, b, 0)

\* width of the significand of a number, one less
MantissaBits == 52

\* Whether the double (a / b) * 100 lies below the exact 100a / b when that
\* is a half-integer k + 1/2, so that Math.round yields k, not k + 1.  The
\* division rounds a / b to 53 significant bits: with
\* r = (a * 2^(52 - e)) mod b the quotient is rounded down by r / b units in
\* the last place when 2r < b, and up otherwise.  The product by 100 then
\* rounds back to k + 1/2 unless the deficit, 100 r / b units of 2^(e - 52),
\* exceeds half a unit in the last place 2^(f - 52) of k + 1/2.
ProductBelowHalf(a, b) ==
    LET e == Exponent(a, b)
        f == Exponent(100 * a, b)
        r == ((a % b) * Pow2Mod(MantissaBits - e, b)) % b
    IN  r # 0 /\ 2 * r < b /\ 200 * r > b * Pow2(f - e)

\* Math.round(((unchangedChars * 2) / totalChars) * 100), in doubles.  Away
\* from a half-integer the rounding error of the two operations (below
\* 2^-44) cannot move the product across k + 1/2, at least 1 / (2 b) away.
RoundedPercent(unchangedChars, totalChars) ==
    LET a == unchangedChars * 2
        b == totalChars
        exact == (200 * a + b) \div (2 * b)
    IN  IF a = 0 THEN 0
        ELSE IF (200 * a) % (2 * b) = b /\ ProductBelowHalf(a, b) THEN exact - 1
        ELSE exact

\* the callback of diff.forEach: one segment folded into the five counters
FoldSegment(acc, segment) ==
    IF segment.type = "added" THEN
        [acc EXCEPT !.linesAdded = @ + 1,
                    !.charactersAdded = @ + Len(segment.text)]
    ELSE IF segment.type = "removed" THEN
        [acc EXCEPT !.linesRemoved = @ + 1,
                    !.charactersRemoved = @ + Len(segment.text)]
    ELSE
        [acc EXCEPT !.linesUnchanged = @ + 1]

RECURSIVE FoldStats(_, _)
\* diff.forEach(...)
FoldStats(diff, acc) ==
    IF diff = <<>> THEN acc
    ELSE FoldStats(Tail(diff), FoldSegment(acc, Head(diff)))

RECURSIVE UnchangedCharsNoFilter(_)
\* UnchangedChars with the filter on the segment type left out
UnchangedCharsNoFilter(diff) ==
    IF diff = <<>> THEN 0
    ELSE Len(Head(diff).text) + UnchangedCharsNoFilter(Tail(diff))

RECURSIVE UnchangedCharsInverted(_)
\* UnchangedChars with the filter inverted: s.type !== 'unchanged'
UnchangedCharsInverted(diff) ==
    IF diff = <<>> THEN 0
    ELSE (IF Head(diff).type # "unchanged" THEN Len(Head(diff).text) ELSE 0)
         + UnchangedCharsInverted(Tail(diff))

RECURSIVE UnchangedChars(_)
\* diff.filter(s => s.type === 'unchanged').reduce((sum, s) => sum + s.text.length, 0)
UnchangedChars(diff) ==
    IF diff = <<>> THEN 0
    ELSE (IF Head(diff).type = "unchanged" THEN Len(Head(diff).text) ELSE 0)
         + UnchangedChars(Tail(diff))

\* StatsDiff folding the character diff
StatsDiffInline(t1, t2) == computeInlineDiff(t1, t2)

\* const diff = computeDiff(text1, text2): the statistics fold the line diff
StatsDiff(t1, t2) == computeDiff(t1, t2)

\* Similarity with 0 for two empty texts
SimilarityZeroWhenEmpty(unchangedChars, totalChars) ==
    IF totalChars > 0 THEN RoundedPercent(unchangedChars, totalChars) ELSE 0

\* Math.round(similarity * 100) with
\* similarity = totalChars > 0 ? (unchangedChars * 2) / totalChars : 1.
\* The result is in hundredths: the value before the final division by 100,
\* so 100 stands for 1 and 57 for 0.57.
Similarity(unchangedChars, totalChars) ==
    IF totalChars > 0 THEN RoundedPercent(unchangedChars, totalChars) ELSE 100

getDiffStats(t1, t2) ==
    LET diff == StatsDiff(t1, t2)
        counters == FoldStats(diff, [linesAdded |-> 0, linesRemoved |-> 0,
                                     linesUnchanged |-> 0, charactersAdded |-> 0,
                                     charactersRemoved |-> 0])
        totalChars == Len(t1) + Len(t2)
        unchangedChars == UnchangedChars(diff)
    IN  [linesAdded        |-> counters.linesAdded,
         linesRemoved      |-> counters.linesRemoved,
         linesUnchanged    |-> counters.linesUnchanged,
         charactersAdded   |-> counters.charactersAdded,
         charactersRemoved |-> counters.charactersRemoved,
         similarity        |-> Similarity(unchangedChars, totalChars)]

----------------------------------------------------------------------------
(* The inputs and the calls.                                               *)

RECURSIVE SeqsUpTo(_, _)
\* all sequences over S of length 0..n
SeqsUpTo(S, n) ==
    IF n = 0 THEN {<<>>}
    ELSE LET shorter == SeqsUpTo(S, n - 1)
         IN  shorter \cup {Append(s, c) : s \in shorter, c \in S}

\* every text of at most MaxLen characters
Texts == SeqsUpTo(Chars, MaxLen)

RECURSIVE Join(_)
\* the lines joined with "\n"
Join(lines) ==
    IF Len(lines) = 0 THEN <<>>
    ELSE IF Len(lines) = 1 THEN lines[1]
    ELSE lines[1] \o <<NL>> \o Join(Tail(lines))

\* the one-character lines
Lines == {<<c>> : c \in LineChars}

\* every sequence of 1..MaxLines lines of Lines
LineSeqs == SeqsUpTo(Lines, MaxLines) \ {<<>>}

\* ls with the line x inserted after its first k lines
InsertAt(ls, k, x) == SubSeq(ls, 1, k) \o <<x>> \o SubSeq(ls, k + 1, Len(ls))

\* ls without its k-th line
RemoveAt(ls, k) == SubSeq(ls, 1, k - 1) \o SubSeq(ls, k + 1, Len(ls))

\* the character c repeated n times
Rep(c, n) == [k \in 1..n |-> c]

NoStats == [linesAdded |-> 0, linesRemoved |-> 0, linesUnchanged |-> 0,
            charactersAdded |-> 0, charactersRemoved |-> 0, similarity |-> 0]

\* the local variables of a diff loop before its first iteration
NoLoop == [i |-> 0, j |-> 0, segments |-> <<>>]

Idle == /\ op = "idle"
        /\ segments = <<>>
        /\ stats = NoStats
        /\ loop = NoLoop
        /\ prev = NoLoop
        /\ iters = 0

\* JavaScript's null: no previewFile, no editingText, no toast
null == [null |-> TRUE]

\* ---- the Roman numeral converter: RomanNumeral ----

romanValues ==
    << <<1000, <<"M">> >>, <<900, <<"C", "M">> >>, <<500, <<"D">> >>,
       <<400, <<"C", "D">> >>, <<100, <<"C">> >>, <<90, <<"X", "C">> >>,
       <<50, <<"L">> >>, <<40, <<"X", "L">> >>, <<10, <<"X">> >>,
       <<9, <<"I", "X">> >>, <<5, <<"V">> >>, <<4, <<"I", "V">> >>,
       <<1, <<"I">> >> >>

\* what a call returns, or the message of the Error it throws
Returns(value) == [ok |-> TRUE, value |-> value]
Throws(message) == [ok |-> FALSE, message |-> message]

DigitChars == <<"0", "1", "2", "3", "4", "5", "6", "7", "8", "9">>

IsDigit(c) == \E d \in 1..Len(DigitChars) : DigitChars[d] = c

DigitValue(c) == (CHOOSE d \in 1..Len(DigitChars) : DigitChars[d] = c) - 1

RECURSIVE NaturalToString(_)
NaturalToString(n) ==
    IF n < 10 THEN <<DigitChars[n + 1]>>
    ELSE Append(NaturalToString(n \div 10), DigitChars[(n % 10) + 1])

\* Number.prototype.toString() of an integer
NumberToString(n) ==
    IF n < 0 THEN <<"-">> \o NaturalToString(-n) ELSE NaturalToString(n)

RECURSIVE TrimStart(_)
TrimStart(str) ==
    IF str # <<>> /\ Head(str) = " " THEN TrimStart(Tail(str)) ELSE str

RECURSIVE TrimEnd(_)
TrimEnd(str) ==
    IF str # <<>> /\ str[Len(str)] = " "
    THEN TrimEnd(SubSeq(str, 1, Len(str) - 1))
    ELSE str

\* String.prototype.trim()
Trim(str) == TrimEnd(TrimStart(str))

RECURSIVE ParseDigits(_, _)
\* the value of the longest prefix of digits of str, after acc
ParseDigits(str, acc) ==
    IF str # <<>> /\ IsDigit(Head(str))
    THEN ParseDigits(Tail(str), 10 * acc + DigitValue(Head(str)))
    ELSE acc

\* parseInt(str): leading white space skipped, an optional sign, then the
\* longest prefix of digits; NaN when there is no digit
parseInt(str) ==
    LET trimmed == TrimStart(str)
        signed == trimmed # <<>> /\ Head(trimmed) \in {"-", "+"}
        digits == IF signed THEN Tail(trimmed) ELSE trimmed
    IN  IF digits = <<>> \/ ~IsDigit(Head(digits)) THEN [nan |-> TRUE]
        ELSE [nan |-> FALSE,
              value |-> IF signed /\ Head(trimmed) = "-"
                        THEN -ParseDigits(digits, 0)
                        ELSE ParseDigits(digits, 0)]

LowerCase == <<"i", "v", "x", "l", "c", "d", "m">>
UpperCase == <<"I", "V", "X", "L", "C", "D", "M">>

\* String.prototype.toUpperCase()
toUpperCase(str) ==
    [k \in 1..Len(str) |->
        IF \E n \in 1..Len(LowerCase) : LowerCase[n] = str[k]
        THEN UpperCase[CHOOSE n \in 1..Len(LowerCase) : LowerCase[n] = str[k]]
        ELSE str[k]]

RECURSIVE ToRomanLoop(_, _, _)
\* for (const [value, symbol] of romanValues) while (num >= value) ...
ToRomanLoop(num, k, result) ==
    IF k > Len(romanValues) THEN result
    ELSE IF num >= romanValues[k][1]
    THEN ToRomanLoop(num - romanValues[k][1], k, result \o romanValues[k][2])
    ELSE ToRomanLoop(num, k + 1, result)

\* toRoman taking 0 for a number in range
toRomanFromZero(num) ==
    IF num < 0 \/ num > 3999 THEN Throws("Number must be between 1 and 3999")
    ELSE Returns(ToRomanLoop(num, 1, <<>>))

toRoman(num) ==
    IF num <= 0 \/ num > 3999 THEN Throws("Number must be between 1 and 3999")
    ELSE Returns(ToRomanLoop(num, 1, <<>>))

\* romanValues.find(([_, sym]) => sym === chars): its position, 0 if none
FindSymbol(chars) ==
    IF \E k \in 1..Len(romanValues) : romanValues[k][2] = chars
    THEN CHOOSE k \in 1..Len(romanValues) : romanValues[k][2] = chars
    ELSE 0

RECURSIVE FromRomanOneCharLoop(_, _, _)
\* FromRomanLoop without the look at two characters
FromRomanOneCharLoop(upper, i, result) ==
    IF i >= Len(upper) THEN Returns(result)
    ELSE LET found == FindSymbol(<<upper[i + 1]>>)
         IN  IF found > 0
             THEN FromRomanOneCharLoop(upper, i + 1,
                                       result + romanValues[found][1])
             ELSE Throws("Invalid Roman numeral")

RECURSIVE FromRomanLoop(_, _, _)
\* while (i < upper.length): two characters if they are a symbol, else one
FromRomanLoop(upper, i, result) ==
    IF i >= Len(upper) THEN Returns(result)
    ELSE LET twoChar == SubSeq(upper, i + 1,
                               IF i + 2 <= Len(upper) THEN i + 2 ELSE Len(upper))
             found == FindSymbol(twoChar)
         IN  IF found > 0
             THEN FromRomanLoop(upper, i + 2, result + romanValues[found][1])
             ELSE LET oneChar == <<upper[i + 1]>>
                      foundOne == FindSymbol(oneChar)
                  IN  IF foundOne > 0
                      THEN FromRomanLoop(upper, i + 1,
                                         result + romanValues[foundOne][1])
                      ELSE Throws("Invalid Roman numeral")

\* fromRoman reading one character at a time
fromRomanOneChar(roman) == FromRomanOneCharLoop(toUpperCase(roman), 0, 0)

fromRoman(roman) == FromRomanLoop(toUpperCase(roman), 0, 0)

\* the component after mounting
RomanMounted == /\ romanMode = "toRoman"
                /\ input = <<>>
                /\ output = <<>>
                /\ toast = null

\* PDFEditor with no upload waiting and no preview shown: PDFPreview starts
\* with currentPage 1 and totalPages 0 when it mounts
PreviewMounted == /\ uploads = {}
                  /\ clock = 0
                  /\ currentPage = 1
                  /\ totalPages = 0
                  /\ timer = null
                  /\ renders = <<>>

\* FormBuilder after mounting
FormMounted == /\ fields = <<>>
               /\ exported = null

\* ---- the PDF editor: PDFEditor and the PDFPreview it shows ----

\* fontSize: 12 of an annotation made in the preview
FontSize == 12

\* distance < 50 of the hit test of handleCanvasClick
HitThreshold == 50

\* the modes of the editor
Modes == {"combine", "remove", "extract", "edit"}

\* where a click can land on the canvas (all on one height), and the
\* texts typed in the modal
Xs == {0, 60}
Ys == {0}
EditTexts == {"", "a", "b"}

\* arr.filter((_, i) => i !== index)
FilterOutIndex(arr, index) ==
    IF index >= 0 /\ index < Len(arr)
    THEN SubSeq(arr, 1, index) \o SubSeq(arr, index + 2, Len(arr))
    ELSE arr

\* arr.findIndex(test), given the positions (from 1) of the elements of arr
\* that pass the test
FindIndex(passing) ==
    IF passing # {}
    THEN (CHOOSE k \in passing : \A m \in passing : k <= m) - 1
    ELSE -1

\* pdfFiles.map(f => f.id === fileId ? {...f, textAnnotations: ...} : f) with
\* the annotation at index filtered out
removeTextAnnotation(files, fileId, index) ==
    [k \in 1..Len(files) |->
        IF files[k].id = fileId
        THEN [files[k] EXCEPT
                 !.textAnnotations = FilterOutIndex(files[k].textAnnotations, index)]
        ELSE files[k]]

\* the onTextDelete prop: what it sets pdfFiles and previewFile to, both
\* computed from the values of the render the handler was made in
onTextDelete(render, index) ==
    [pdfFiles    |-> removeTextAnnotation(render.pdfFiles,
                                          render.previewFile.id, index),
     previewFile |-> [render.previewFile EXCEPT
                         !.textAnnotations =
                             FilterOutIndex(render.previewFile.textAnnotations,
                                            index)]]

\* the onTextEdit prop: with a non-empty text it sets pdfFiles and
\* previewFile, both computed from the values of the render; with an empty
\* text it sets nothing and what was set before (pending) stays
onTextEdit(render, pending, page, x, y, text) ==
    IF text # "" THEN
        LET newAnnotation == [page |-> page, text |-> text, x |-> x, y |-> y,
                              fontSize |-> FontSize]
        IN  [pdfFiles |->
                 [k \in 1..Len(render.pdfFiles) |->
                     IF render.pdfFiles[k].id = render.previewFile.id
                     THEN [render.pdfFiles[k] EXCEPT
                              !.textAnnotations = Append(@, newAnnotation)]
                     ELSE render.pdfFiles[k]],
             previewFile |->
                 [render.previewFile EXCEPT
                     !.textAnnotations = Append(@, newAnnotation)]]
    ELSE pending

\* the state of this render
Render == [pdfFiles |-> pdfFiles, previewFile |-> previewFile]

\* the components after mounting
Mounted == /\ pdfFiles = <<>>
           /\ previewFile = null
           /\ editingText = null
           /\ mode = "combine"

\* two one-page files have been uploaded
InitPdf == /\ pdfFiles = <<[id |-> "pdf_0", pageCount |-> 1,
                            selectedPages |-> <<>>, textAnnotations |-> <<>>],
                           [id |-> "pdf_1", pageCount |-> 1,
                            selectedPages |-> <<>>, textAnnotations |-> <<>>]>>
           /\ previewFile = null
           /\ editingText = null
           /\ mode = "combine"
           /\ RomanMounted
           /\ PreviewMounted
           /\ FormMounted
           /\ text1 = <<>>
           /\ text2 = <<>>
           /\ op = "idle"
           /\ segments = <<>>
           /\ stats = [linesAdded |-> 0, linesRemoved |-> 0, linesUnchanged |-> 0,
                       charactersAdded |-> 0, charactersRemoved |-> 0,
                       similarity |-> 0]
           /\ loop = [i |-> 0, j |-> 0, segments |-> <<>>]
           /\ prev = [i |-> 0, j |-> 0, segments |-> <<>>]
           /\ iters = 0

\* a mode button, which the preview modal covers while it is open
SetMode ==
    /\ previewFile = null
    /\ \E m \in Modes : mode' = m
    /\ UNCHANGED <<pdfFiles, previewFile, editingText>>
    /\ UNCHANGED <<diffVars, loopVars, romanVars, uploadVars, previewVars,
                   formVars>>

\* the preview button of a file: setPreviewFile(pdfFile)
OpenPreview ==
    /\ previewFile = null
    /\ mode \in {"remove", "extract", "edit"}
    /\ \E k \in 1..Len(pdfFiles) : previewFile' = pdfFiles[k]
    /\ UNCHANGED <<pdfFiles, editingText, mode>>
    /\ UNCHANGED <<diffVars, loopVars, romanVars, uploadVars, previewVars,
                   formVars>>

\* onClose: setPreviewFile(null); the PDFPreview unmounts with its state
OnClose ==
    /\ previewFile # null
    /\ previewFile' = null
    /\ editingText' = null
    /\ currentPage' = 1
    /\ totalPages' = 0
    /\ timer' = null
    /\ renders' = <<>>
    /\ UNCHANGED <<pdfFiles, mode>>
    /\ UNCHANGED <<diffVars, loopVars, romanVars, uploadVars, formVars>>

\* the trash button of an annotation in the list of a file
RemoveFromList ==
    /\ previewFile = null
    /\ \E k \in 1..Len(pdfFiles) :
          \E index \in 0..(Len(pdfFiles[k].textAnnotations) - 1) :
              pdfFiles' = removeTextAnnotation(pdfFiles, pdfFiles[k].id, index)
    /\ UNCHANGED <<previewFile, editingText, mode>>
    /\ UNCHANGED <<diffVars, loopVars, romanVars, uploadVars, previewVars,
                   formVars>>

\* a click on the canvas at (x, y), the canvas shown at its own size; the
\* modal covers the canvas while editingText is set
handleCanvasClick ==
    /\ previewFile # null
    /\ mode = "edit"
    /\ editingText = null
    /\ \E x \in Xs, y \in Ys :
          LET textAnnotations == previewFile.textAnnotations
              Hit(ann) ==
                  /\ ann.page = currentPage
                  /\ (ann.x - x) * (ann.x - x) + (ann.y - y) * (ann.y - y)
                        < HitThreshold * HitThreshold
              index == FindIndex({k \in 1..Len(textAnnotations) :
                                     Hit(textAnnotations[k])})
          IN  IF index >= 0 THEN
                  LET clickedAnnotation == textAnnotations[index + 1]
                  IN  editingText' = [page |-> currentPage,
                                      x |-> clickedAnnotation.x,
                                      y |-> clickedAnnotation.y,
                                      text |-> clickedAnnotation.text,
                                      index |-> index]
              ELSE
                  /\ Len(textAnnotations) < MaxAnnotations
                  /\ editingText' = [page |-> currentPage, x |-> x, y |-> y,
                                     text |-> ""]
    /\ UNCHANGED <<pdfFiles, previewFile, mode>>
    /\ UNCHANGED <<diffVars, loopVars, romanVars, uploadVars, previewVars,
                   formVars>>

\* a click on the overlay of an annotation of the current page
AnnotationClick ==
    /\ previewFile # null
    /\ mode = "edit"
    /\ editingText = null
    /\ \E globalIdx \in 0..(Len(previewFile.textAnnotations) - 1) :
          LET annotation == previewFile.textAnnotations[globalIdx + 1]
          IN  /\ annotation.page = currentPage
              /\ editingText' = [page |-> annotation.page, x |-> annotation.x,
                                 y |-> annotation.y, text |-> annotation.text,
                                 index |-> globalIdx]
    /\ UNCHANGED <<pdfFiles, previewFile, mode>>
    /\ UNCHANGED <<diffVars, loopVars, romanVars, uploadVars, previewVars,
                   formVars>>

\* the trash button on the overlay of an annotation: onTextDelete(globalIdx)
AnnotationTrashClick ==
    /\ previewFile # null
    /\ mode = "edit"
    /\ editingText = null
    /\ \E globalIdx \in 0..(Len(previewFile.textAnnotations) - 1) :
          /\ previewFile.textAnnotations[globalIdx + 1].page = currentPage
          /\ pdfFiles' = onTextDelete(Render, globalIdx).pdfFiles
          /\ previewFile' = onTextDelete(Render, globalIdx).previewFile
    /\ UNCHANGED <<editingText, mode>>
    /\ UNCHANGED <<diffVars, loopVars, romanVars, uploadVars, previewVars,
                   formVars>>

\* typing in the textarea of the modal
ChangeEditText ==
    /\ editingText # null
    /\ mode = "edit"
    /\ \E value \in EditTexts :
          editingText' = [editingText EXCEPT !.text = value]
    /\ UNCHANGED <<pdfFiles, previewFile, mode>>
    /\ UNCHANGED <<diffVars, loopVars, romanVars, uploadVars, previewVars,
                   formVars>>

\* the X input of the modal
ChangeEditX ==
    /\ editingText # null
    /\ mode = "edit"
    /\ \E value \in Xs : editingText' = [editingText EXCEPT !.x = value]
    /\ UNCHANGED <<pdfFiles, previewFile, mode>>
    /\ UNCHANGED <<diffVars, loopVars, romanVars, uploadVars, previewVars,
                   formVars>>

\* the Save button of the modal.  onTextDelete and onTextEdit both set
\* pdfFiles and previewFile from the values of this render, so of the
\* values set in one run of the handler the last ones stay.
saveTextEdit ==
    /\ editingText # null
    /\ previewFile # null
    /\ mode = "edit"
    /\ LET afterDelete ==
               IF "index" \in DOMAIN editingText
               THEN onTextDelete(Render, editingText.index)
               ELSE Render
           afterEdit ==
               onTextEdit(Render, afterDelete, editingText.page,
                          editingText.x, editingText.y, editingText.text)
       IN  /\ Len(afterEdit.previewFile.textAnnotations) <= MaxAnnotations
           /\ pdfFiles' = afterEdit.pdfFiles
           /\ previewFile' = afterEdit.previewFile
    /\ editingText' = null
    /\ UNCHANGED mode
    /\ UNCHANGED <<diffVars, loopVars, romanVars, uploadVars, previewVars,
                   formVars>>

\* the other button of the modal: Delete for an annotation, else Cancel
CancelOrDelete ==
    /\ editingText # null
    /\ previewFile # null
    /\ mode = "edit"
    /\ IF "index" \in DOMAIN editingText
       THEN /\ pdfFiles' = onTextDelete(Render, editingText.index).pdfFiles
            /\ previewFile' = onTextDelete(Render, editingText.index).previewFile
       ELSE UNCHANGED <<pdfFiles, previewFile>>
    /\ editingText' = null
    /\ UNCHANGED mode
    /\ UNCHANGED <<diffVars, loopVars, romanVars, uploadVars, previewVars,
                   formVars>>

NextPdf == \/ SetMode
           \/ OpenPreview
           \/ OnClose
           \/ RemoveFromList
           \/ handleCanvasClick
           \/ AnnotationClick
           \/ AnnotationTrashClick
           \/ ChangeEditText
           \/ ChangeEditX
           \/ saveTextEdit
           \/ CancelOrDelete

SpecPdf == InitPdf /\ [][NextPdf]_vars

\* showToast(message, type)
Toast(message, type) == [message |-> message, type |-> type]

\* the numbers typed in InitRoman, and their Roman numerals where they
\* have one
TypedNumbers == (0 - 2)..MaxNumber
TypedInputs ==
    {NumberToString(n) : n \in TypedNumbers}
        \cup {toRoman(n).value : n \in {m \in TypedNumbers : toRoman(m).ok}}

\* what ChangeInput types
EdgeInputs ==
    {<<>>, <<" ">>, <<" ", "7", " ">>, <<"4", "x">>, <<"x">>, <<"+", "9">>,
     <<"i", "v">>, <<"I", "I", "I", "I">>, <<"I", "M">>, <<"A">>}

\* a value has been typed
InitRoman == /\ romanMode = "toRoman"
             /\ input \in TypedInputs
             /\ output = <<>>
             /\ toast = null
             /\ Mounted
             /\ PreviewMounted
             /\ FormMounted
             /\ text1 = <<>>
             /\ text2 = <<>>
             /\ Idle

\* the To Roman button
SetModeToRoman ==
    /\ romanMode' = "toRoman"
    /\ output' = <<>>
    /\ UNCHANGED <<input, toast>>
    /\ UNCHANGED <<diffVars, loopVars, pdfVars, uploadVars, previewVars,
                   formVars>>

\* the From Roman button
SetModeFromRoman ==
    /\ romanMode' = "fromRoman"
    /\ output' = <<>>
    /\ UNCHANGED <<input, toast>>
    /\ UNCHANGED <<diffVars, loopVars, pdfVars, uploadVars, previewVars,
                   formVars>>

\* onChange of the input
ChangeInput ==
    /\ \E value \in EdgeInputs : input' = value
    /\ output' = <<>>
    /\ UNCHANGED <<romanMode, toast>>
    /\ UNCHANGED <<diffVars, loopVars, pdfVars, uploadVars, previewVars,
                   formVars>>

\* the body of the try block of handleConvert: the output it sets, or the
\* message of what it throws
Convert ==
    IF romanMode = "toRoman" THEN
        LET num == parseInt(input)
        IN  IF num.nan THEN Throws("Invalid number") ELSE toRoman(num.value)
    ELSE
        LET number == fromRoman(input)
        IN  IF number.ok THEN Returns(NumberToString(number.value)) ELSE number

\* the Convert button, disabled while !input.trim()
handleConvert ==
    /\ Trim(input) # <<>>
    /\ IF Trim(input) = <<>> THEN
           /\ toast' = Toast("Please enter a value", "error")
           /\ UNCHANGED output
       ELSE IF Convert.ok THEN
           /\ output' = Convert.value
           /\ toast' = Toast("Converted successfully", "success")
       ELSE
           /\ toast' = Toast(Convert.message, "error")
           /\ UNCHANGED output
    /\ UNCHANGED <<romanMode, input>>
    /\ UNCHANGED <<diffVars, loopVars, pdfVars, uploadVars, previewVars,
                   formVars>>

\* the Copy button, shown with an output
handleCopy ==
    /\ output # <<>>
    /\ toast' = Toast("Copied to clipboard", "success")
    /\ UNCHANGED <<romanMode, input, output>>
    /\ UNCHANGED <<diffVars, loopVars, pdfVars, uploadVars, previewVars,
                   formVars>>

NextRoman == \/ SetModeToRoman
             \/ SetModeFromRoman
             \/ ChangeInput
             \/ handleConvert
             \/ handleCopy

SpecRoman == InitRoman /\ [][NextRoman]_vars

\* ---- PDFEditor: uploads, removal and page selection ----

\* arr.includes(x)
Includes(arr, x) == \E k \in 1..Len(arr) : arr[k] = x

\* arr.filter(p => p !== x)
Without(arr, x) ==
    LET Keep == {k \in 1..Len(arr) : arr[k] # x}
        Nth(n) == CHOOSE k \in Keep : Cardinality({m \in Keep : m < k}) = n - 1
    IN  [n \in 1..Cardinality(Keep) |-> arr[Nth(n)]]

RECURSIVE SortAscending(_)
\* arr.sort((a, b) => a - b)
SortAscending(arr) ==
    IF arr = <<>> THEN <<>>
    ELSE LET least == CHOOSE k \in 1..Len(arr) :
                          /\ \A m \in 1..Len(arr) : arr[k] <= arr[m]
                          /\ \A m \in 1..(k - 1) : arr[m] # arr[k]
         IN  <<arr[least]>>
             \o SortAscending(SubSeq(arr, 1, least - 1)
                              \o SubSeq(arr, least + 1, Len(arr)))

\* selectedPages with pageNum taken out if it is in, else put in and sorted
Toggled(selectedPages, pageNum) ==
    IF Includes(selectedPages, pageNum)
    THEN Without(selectedPages, pageNum)
    ELSE SortAscending(Append(selectedPages, pageNum))

\* togglePageSelection without the sort
togglePageSelectionUnsorted(files, fileId, pageNum) ==
    [k \in 1..Len(files) |->
        IF files[k].id = fileId
        THEN [files[k] EXCEPT
                 !.selectedPages =
                     IF Includes(@, pageNum) THEN Without(@, pageNum)
                     ELSE Append(@, pageNum)]
        ELSE files[k]]

\* what togglePageSelection sets pdfFiles to
togglePageSelection(files, fileId, pageNum) ==
    [k \in 1..Len(files) |->
        IF files[k].id = fileId
        THEN [files[k] EXCEPT !.selectedPages = Toggled(@, pageNum)]
        ELSE files[k]]

\* what selectAllPages sets pdfFiles to
selectAllPages(files, fileId) ==
    [k \in 1..Len(files) |->
        IF files[k].id = fileId
        THEN [files[k] EXCEPT
                 !.selectedPages = [i \in 1..files[k].pageCount |-> i]]
        ELSE files[k]]

\* what clearSelection sets pdfFiles to
clearSelection(files, fileId) ==
    [k \in 1..Len(files) |->
        IF files[k].id = fileId
        THEN [files[k] EXCEPT !.selectedPages = <<>>]
        ELSE files[k]]

\* what removeFile sets pdfFiles to
removeFile(files, id) ==
    LET Keep == {k \in 1..Len(files) : files[k].id # id}
        Nth(n) == CHOOSE k \in Keep : Cardinality({m \in Keep : m < k}) = n - 1
    IN  [n \in 1..Cardinality(Keep) |-> files[Nth(n)]]

\* the files a file picker hands over, each given by its number of pages,
\* 0 for a file that is not a PDF: one file, or several in mode combine
PickedFiles ==
    {<<n>> : n \in 0..MaxPages}
        \cup (IF mode = "combine"
              THEN {<<n, m>> : n \in 0..MaxPages, m \in 0..MaxPages}
              ELSE {})

RECURSIVE NewFilesFrom(_, _, _)
\* the loop of handleFileSelect from index i on: the PDFs among the picked
\* files, each with its page count, the id pdf_<now>_<i> and nothing
\* selected or annotated
NewFilesFrom(files, now, i) ==
    IF i >= Len(files) THEN <<>>
    ELSE (IF files[i + 1] > 0
          THEN <<[id |-> <<"pdf", now, i>>, pageCount |-> files[i + 1],
                  selectedPages |-> <<>>, textAnnotations |-> <<>>]>>
          ELSE <<>>)
         \o NewFilesFrom(files, now, i + 1)

\* handleFileSelect up to its first await: the call keeps the pdfFiles of
\* the render it was made in; with no PDF among the files nothing is
\* awaited and setPdfFiles([...pdfFiles]) is reached at once
HandleFileSelectBegin ==
    /\ previewFile = null
    /\ clock < MaxUploads
    /\ \E files \in PickedFiles :
          uploads' = IF \E k \in 1..Len(files) : files[k] > 0
                     THEN uploads \cup {[pdfFiles |-> pdfFiles,
                                         files |-> files, now |-> clock]}
                     ELSE uploads
    /\ clock' = clock + 1
    /\ UNCHANGED pdfVars
    /\ UNCHANGED <<diffVars, loopVars, romanVars, previewVars, formVars>>

\* the page counts are in: setPdfFiles([...pdfFiles, ...newFiles])
HandleFileSelectEnd(call) ==
    /\ call \in uploads
    /\ pdfFiles' = call.pdfFiles \o NewFilesFrom(call.files, call.now, 0)
    /\ uploads' = uploads \ {call}
    /\ UNCHANGED <<previewFile, editingText, mode, clock>>
    /\ UNCHANGED <<diffVars, loopVars, romanVars, previewVars, formVars>>

\* the trash button of a file
RemoveFile ==
    /\ previewFile = null
    /\ \E k \in 1..Len(pdfFiles) : pdfFiles' = removeFile(pdfFiles, pdfFiles[k].id)
    /\ UNCHANGED <<previewFile, editingText, mode>>
    /\ UNCHANGED <<diffVars, loopVars, romanVars, uploadVars, previewVars,
                   formVars>>

\* the page selection panel is shown for the first file in the modes
\* remove and extract
SelectionPanelShown ==
    /\ previewFile = null
    /\ mode \in {"remove", "extract"}
    /\ pdfFiles # <<>>

\* a page button of the panel
TogglePageSelection ==
    /\ SelectionPanelShown
    /\ \E pageNum \in 1..pdfFiles[1].pageCount :
          pdfFiles' = togglePageSelection(pdfFiles, pdfFiles[1].id, pageNum)
    /\ UNCHANGED <<previewFile, editingText, mode>>
    /\ UNCHANGED <<diffVars, loopVars, romanVars, uploadVars, previewVars,
                   formVars>>

\* the Select All button of the panel
SelectAllPages ==
    /\ SelectionPanelShown
    /\ pdfFiles' = selectAllPages(pdfFiles, pdfFiles[1].id)
    /\ UNCHANGED <<previewFile, editingText, mode>>
    /\ UNCHANGED <<diffVars, loopVars, romanVars, uploadVars, previewVars,
                   formVars>>

\* the Clear button of the panel
ClearSelection ==
    /\ SelectionPanelShown
    /\ pdfFiles' = clearSelection(pdfFiles, pdfFiles[1].id)
    /\ UNCHANGED <<previewFile, editingText, mode>>
    /\ UNCHANGED <<diffVars, loopVars, romanVars, uploadVars, previewVars,
                   formVars>>

\* the render effect of PDFPreview for the page it now shows: the timer of
\* the effect before is cleared and a new one set
RenderEffect(page) == [page |-> page]

\* loadPDF of the mounted preview is done: setTotalPages, setCurrentPage(1)
LoadPDFDone ==
    /\ previewFile # null
    /\ totalPages = 0
    /\ totalPages' = previewFile.pageCount
    /\ currentPage' = 1
    /\ timer' = RenderEffect(1)
    /\ UNCHANGED renders
    /\ UNCHANGED <<pdfVars, uploadVars>>
    /\ UNCHANGED <<diffVars, loopVars, romanVars, formVars>>

nextPage ==
    /\ previewFile # null
    /\ currentPage < totalPages
    /\ currentPage' = currentPage + 1
    /\ timer' = RenderEffect(currentPage + 1)
    /\ UNCHANGED <<totalPages, renders>>
    /\ UNCHANGED <<pdfVars, uploadVars>>
    /\ UNCHANGED <<diffVars, loopVars, romanVars, formVars>>

prevPage ==
    /\ previewFile # null
    /\ currentPage > 1
    /\ currentPage' = currentPage - 1
    /\ timer' = RenderEffect(currentPage - 1)
    /\ UNCHANGED <<totalPages, renders>>
    /\ UNCHANGED <<pdfVars, uploadVars>>
    /\ UNCHANGED <<diffVars, loopVars, romanVars, formVars>>

\* a page button of the preview: setCurrentPage(pageNum)
SetCurrentPage ==
    /\ previewFile # null
    /\ \E pageNum \in 1..totalPages :
          /\ pageNum # currentPage
          /\ currentPage' = pageNum
          /\ timer' = RenderEffect(pageNum)
    /\ UNCHANGED <<totalPages, renders>>
    /\ UNCHANGED <<pdfVars, uploadVars>>
    /\ UNCHANGED <<diffVars, loopVars, romanVars, formVars>>

\* the Select Page button of the preview: onPageSelect(currentPage), which
\* sets pdfFiles by togglePageSelection and previewFile from its own copy
OnPageSelect ==
    /\ previewFile # null
    /\ mode \in {"remove", "extract"}
    /\ totalPages > 0
    /\ pdfFiles' = togglePageSelection(pdfFiles, previewFile.id, currentPage)
    /\ previewFile' = [previewFile EXCEPT
                          !.selectedPages = Toggled(@, currentPage)]
    /\ UNCHANGED <<editingText, mode>>
    /\ UNCHANGED <<diffVars, loopVars, romanVars, uploadVars, previewVars,
                   formVars>>

\* the editor after mounting
InitFiles == /\ Mounted
             /\ RomanMounted
             /\ PreviewMounted
             /\ FormMounted
             /\ text1 = <<>>
             /\ text2 = <<>>
             /\ Idle

NextFiles == \/ SetMode
             \/ HandleFileSelectBegin
             \/ \E call \in uploads : HandleFileSelectEnd(call)
             \/ RemoveFile
             \/ TogglePageSelection
             \/ SelectAllPages
             \/ ClearSelection
             \/ OpenPreview
             \/ LoadPDFDone
             \/ nextPage
             \/ prevPage
             \/ SetCurrentPage
             \/ OnPageSelect
             \/ OnClose

SpecFiles == InitFiles /\ [][NextFiles]_vars

\* the files of InitSelect: uploaded one after the other, nothing selected
UploadedFiles ==
    {NewFilesFrom(<<n>>, 0, 0) \o NewFilesFrom(<<m>>, 1, 0) :
        n \in 1..MaxPages, m \in 0..MaxPages}

\* the editor with one or two uploaded files and no upload in flight
InitSelect == /\ pdfFiles \in UploadedFiles
              /\ previewFile = null
              /\ editingText = null
              /\ mode \in {"remove", "extract"}
              /\ RomanMounted
              /\ PreviewMounted
              /\ FormMounted
              /\ text1 = <<>>
              /\ text2 = <<>>
              /\ Idle

NextSelect == \/ SetMode
              \/ RemoveFile
              \/ TogglePageSelection
              \/ SelectAllPages
              \/ ClearSelection
              \/ OpenPreview
              \/ LoadPDFDone
              \/ nextPage
              \/ prevPage
              \/ SetCurrentPage
              \/ OnPageSelect
              \/ OnClose

SpecSelect == InitSelect /\ [][NextSelect]_vars

\* ---- PDFPreview: the calls of renderPage ----

\* pdf.getPage(pageNumber) of pdf.js, which counts pages from 1: settled
\* with the page, or rejected with 'Invalid page request.'
getPage(numPages, pageNumber) ==
    IF pageNumber \in 1..numPages
    THEN Returns(pageNumber)
    ELSE Throws("Invalid page request.")

\* the timer of the render effect fires: renderPage of the render that set
\* it runs up to await pdf.getPage(currentPage - 1)
TimerFires ==
    /\ previewFile # null
    /\ timer # null
    /\ Len(renders) < MaxRenders
    /\ timer.page \in 1..totalPages
    /\ renders' = Append(renders, [page |-> timer.page, stage |-> "getPage"])
    /\ timer' = null
    /\ UNCHANGED <<currentPage, totalPages>>
    /\ UNCHANGED <<pdfVars, uploadVars>>
    /\ UNCHANGED <<diffVars, loopVars, romanVars, formVars>>

\* getPage of the k-th call settles: with a page the call sizes and clears
\* the canvas and starts page.render on it; rejected, it ends in its catch
GetPageSettles(k) ==
    /\ k \in 1..Len(renders)
    /\ renders[k].stage = "getPage"
    /\ renders' = IF getPage(totalPages, renders[k].page - 1).ok
                  THEN [renders EXCEPT ![k].stage = "render"]
                  ELSE RemoveAt(renders, k)
    /\ UNCHANGED <<currentPage, totalPages, timer>>
    /\ UNCHANGED <<pdfVars, uploadVars>>
    /\ UNCHANGED <<diffVars, loopVars, romanVars, formVars>>

\* page.render of the k-th call settles and the call returns
RenderSettles(k) ==
    /\ k \in 1..Len(renders)
    /\ renders[k].stage = "render"
    /\ renders' = RemoveAt(renders, k)
    /\ UNCHANGED <<currentPage, totalPages, timer>>
    /\ UNCHANGED <<pdfVars, uploadVars>>
    /\ UNCHANGED <<diffVars, loopVars, romanVars, formVars>>

NextRender == \/ OpenPreview
              \/ LoadPDFDone
              \/ nextPage
              \/ prevPage
              \/ SetCurrentPage
              \/ TimerFires
              \/ \E k \in 1..MaxRenders : GetPageSettles(k)
              \/ \E k \in 1..MaxRenders : RenderSettles(k)
              \/ OnClose

SpecRender == InitSelect /\ [][NextRender]_vars

\* ---- FormBuilder: addField and generateFormPDF ----

\* the field types of the toolbox
ToolboxTypes == {"label", "text", "textarea", "checkbox", "radio",
                 "dropdown", "ul", "ol", "signature"}

ListTypes == {"ul", "ol"}

\* width of a new field of the type
FieldWidth(type) ==
    IF type \in {"checkbox", "radio"} THEN 24
    ELSE IF type = "signature" THEN 160
    ELSE IF type = "label" THEN 150
    ELSE 200

\* height of a new field of the type
FieldHeight(type) ==
    IF type \in {"checkbox", "radio"} THEN 24
    ELSE IF type = "textarea" THEN 80
    ELSE IF type = "signature" THEN 64
    ELSE IF type = "label" THEN 32
    ELSE IF type \in ListTypes THEN 100
    ELSE 30

\* label of a new field of the type
FieldLabel(type) ==
    CASE type = "checkbox" -> "Checkbox"
      [] type = "radio" -> "Radio Button"
      [] type = "textarea" -> "Text Area"
      [] type = "signature" -> "Signature"
      [] type = "dropdown" -> "Dropdown"
      [] type = "label" -> "Double click to edit text"
      [] type = "ul" -> "Bullet List"
      [] type = "ol" -> "Numbered List"
      [] OTHER -> "New Field"

\* options of a new dropdown or list
DefaultOptions == <<"Option 1", "Option 2", "Option 3">>

pageWidth == 595
pageHeight == 842
padding == 40
spacing == 16
maxAttempts == 50

\* the largest of the numbers of S, which are positive, or 0 for none
Largest(S) == CHOOSE n \in S \cup {0} : \A m \in S : m <= n

\* hasOverlap of the search loop: a field is nearer than spacing to the
\* rectangle of the given size at (newX, newY)
HasOverlap(fs, width, height, newX, newY) ==
    \E k \in 1..Len(fs) :
        /\ ~(\/ newX + width + spacing <= fs[k].x
             \/ newX >= fs[k].x + fs[k].width + spacing)
        /\ ~(\/ newY + height + spacing <= fs[k].y
             \/ newY >= fs[k].y + fs[k].height + spacing)

RECURSIVE SearchPosition(_, _, _, _, _, _)
\* the while loop of addField from (newX, newY) on: the first position of
\* the grid that is free and on the page, or, after maxAttempts positions,
\* the position the loop stands at
SearchPosition(fs, width, height, newX, newY, attempts) ==
    IF attempts >= maxAttempts THEN [x |-> newX, y |-> newY]
    ELSE IF /\ ~HasOverlap(fs, width, height, newX, newY)
            /\ newX + width <= pageWidth - padding
            /\ newY + height <= pageHeight - padding
         THEN [x |-> newX, y |-> newY]
         ELSE LET right == newX + width + spacing
                  below == newY + height + spacing
              IN  IF right + width > pageWidth - padding
                  THEN SearchPosition(fs, width, height, padding,
                           IF below + height > pageHeight - padding
                           THEN padding ELSE below,
                           attempts + 1)
                  ELSE SearchPosition(fs, width, height, right, newY,
                                      attempts + 1)

\* where addField puts a new field of the given size
NewPosition(fs, width, height) ==
    IF Len(fs) = 0 THEN [x |-> padding, y |-> padding]
    ELSE LET maxBottom == Largest({fs[k].y + fs[k].height : k \in 1..Len(fs)})
             rightmostRight ==
                 Largest({fs[k].x + fs[k].width : k \in 1..Len(fs)})
         IN  IF maxBottom + spacing + height > pageHeight - padding
             THEN IF rightmostRight + spacing + width > pageWidth - padding
                  THEN SearchPosition(fs, width, height, padding, padding, 0)
                  ELSE [x |-> rightmostRight + spacing, y |-> padding]
             ELSE [x |-> padding, y |-> maxBottom + spacing]

\* what addField sets fields to; the id stands for field_<Date.now()>,
\* and no options for options left undefined
addField(fs, type) ==
    LET width == FieldWidth(type)
        height == FieldHeight(type)
        at == NewPosition(fs, width, height)
    IN  Append(fs, [id |-> <<"field", Len(fs)>>, type |-> type,
                    label |-> FieldLabel(type),
                    x |-> at.x, y |-> at.y,
                    width |-> width, height |-> height,
                    options |-> IF type \in {"dropdown"} \cup ListTypes
                                THEN DefaultOptions ELSE <<>>])

\* what generateFormPDF adds to the page for one field; pdfY is the y of
\* the field's lower edge counted from the bottom of the page
ElementsOf(field) ==
    LET pdfY == pageHeight - field.y - field.height
        widget(kind) == [kind |-> kind, name |-> field.id, x |-> field.x,
                         y |-> pdfY, width |-> field.width,
                         height |-> field.height, options |-> <<>>]
    IN  CASE field.type = "label" ->
                 <<[kind |-> "drawText", name |-> field.id, x |-> field.x,
                    y |-> pdfY + field.height - 10, width |-> 0,
                    height |-> 12, options |-> <<>>]>>
          [] field.type \in {"text", "textarea"} -> <<widget("TextField")>>
          [] field.type = "checkbox" -> <<widget("CheckBox")>>
          [] field.type = "radio" -> <<widget("RadioGroup")>>
          [] field.type = "dropdown" ->
                 <<[widget("Dropdown") EXCEPT
                       !.options = IF field.options # <<>>
                                   THEN field.options ELSE DefaultOptions]>>
          [] field.type = "signature" ->
                 <<widget("TextField"), widget("drawRectangle")>>
          [] OTHER -> <<>>

RECURSIVE generateFormPDF(_)
\* the elements of the page generateFormPDF makes, in the order of fields
generateFormPDF(fs) ==
    IF fs = <<>> THEN <<>>
    ELSE ElementsOf(Head(fs)) \o generateFormPDF(Tail(fs))

\* a toolbox button: addField(type)
AddField(type) ==
    /\ fields' = addField(fields, type)
    /\ UNCHANGED exported
    /\ UNCHANGED <<diffVars, loopVars, pdfVars, romanVars, uploadVars,
                   previewVars>>

\* the Export button
handleExport ==
    /\ Len(fields) # 0
    /\ exported' = [elements |-> generateFormPDF(fields)]
    /\ UNCHANGED fields
    /\ UNCHANGED <<diffVars, loopVars, pdfVars, romanVars, uploadVars,
                   previewVars>>

\* the form builder after mounting
InitForm == /\ Mounted
            /\ RomanMounted
            /\ PreviewMounted
            /\ FormMounted
            /\ text1 = <<>>
            /\ text2 = <<>>
            /\ Idle

\* fields are added only: the first MaxMixed of any type, then lists
NextForm ==
    \E type \in ToolboxTypes :
        /\ Len(fields) < MaxFields
        /\ Len(fields) < MaxMixed \/ type \in ListTypes
        /\ AddField(type)

SpecForm == InitForm /\ [][NextForm]_vars

\* a few fields of any types are added and exported
NextExport ==
    \/ \E type \in ToolboxTypes : Len(fields) < MaxExported /\ AddField(type)
    \/ handleExport

SpecExport == InitForm /\ [][NextExport]_vars

\* two arbitrary short texts
Init == /\ Mounted
        /\ RomanMounted
        /\ PreviewMounted
        /\ FormMounted
        /\ text1 \in Texts
        /\ text2 \in Texts
        /\ Idle

\* a text of a few one-character lines and an edit of it: one line
\* inserted anywhere, or one line removed
InitEdit == /\ Mounted
            /\ RomanMounted
            /\ PreviewMounted
            /\ FormMounted
            /\ \E ls \in LineSeqs, k \in 0..MaxLines, x \in Lines :
                  /\ k <= Len(ls)
                  /\ text1 = Join(ls)
                  /\ \/ text2 = Join(InsertAt(ls, k, x))
                     \/ k >= 1 /\ Len(ls) >= 2 /\ text2 = Join(RemoveAt(ls, k))
            /\ Idle

\* two revisions of a two-line text that share the first line: a run of "a",
\* then a run of "b" whose length may differ between the two
InitRuns == /\ Mounted
            /\ RomanMounted
            /\ PreviewMounted
            /\ FormMounted
            /\ \E p \in 0..MaxRun, q1 \in 0..MaxRun, q2 \in 0..MaxRun :
                  /\ text1 = Rep("a", p) \o <<NL>> \o Rep("b", q1)
                  /\ text2 = Rep("a", p) \o <<NL>> \o Rep("b", q2)
            /\ Idle

CallComputeDiff ==
    /\ op = "idle"
    /\ op' = "computeDiff"
    /\ segments' = computeDiff(text1, text2)
    /\ UNCHANGED <<text1, text2, stats>>
    /\ UNCHANGED <<loopVars, pdfVars, romanVars, uploadVars, previewVars,
                   formVars>>

CallComputeInlineDiff ==
    /\ op = "idle"
    /\ op' = "computeInlineDiff"
    /\ segments' = computeInlineDiff(text1, text2)
    /\ UNCHANGED <<text1, text2, stats>>
    /\ UNCHANGED <<loopVars, pdfVars, romanVars, uploadVars, previewVars,
                   formVars>>

CallGetDiffStats ==
    /\ op = "idle"
    /\ op' = "getDiffStats"
    /\ stats' = getDiffStats(text1, text2)
    /\ UNCHANGED <<text1, text2, segments>>
    /\ UNCHANGED <<loopVars, pdfVars, romanVars, uploadVars, previewVars,
                   formVars>>

Next == \/ CallComputeDiff
        \/ CallComputeInlineDiff
        \/ CallGetDiffStats

Spec == Init /\ [][Next]_vars

SpecEdit == InitEdit /\ [][Next]_vars

SpecRuns == InitRuns /\ [][Next]_vars

\* the word of the character diff example and the characters of its variants
Hello == <<"h", "e", "l", "l", "o">>
WordChars == {"h", "e", "a", "l", "o"}

\* "hello" and every word one edit away from it: one character replaced,
\* removed or inserted
WordEdits ==
    {Hello}
    \cup {[Hello EXCEPT ![k] = c] : k \in 1..Len(Hello), c \in WordChars}
    \cup {RemoveAt(Hello, k) : k \in 1..Len(Hello)}
    \cup {InsertAt(Hello, k, c) : k \in 0..Len(Hello), c \in WordChars}

InitWord == /\ Mounted
            /\ RomanMounted
            /\ PreviewMounted
            /\ FormMounted
            /\ text1 \in WordEdits
            /\ text2 \in WordEdits
            /\ Idle

SpecWord == InitWord /\ [][Next]_vars

----------------------------------------------------------------------------
(* The two loops, one iteration at a time.                                 *)

\* every text of at most MaxStepLines one-character lines, "" included
StepTexts == {Join(ls) : ls \in SeqsUpTo({<<c>> : c \in StepChars}, MaxStepLines)}

InitSteps == /\ Mounted
             /\ RomanMounted
             /\ PreviewMounted
             /\ FormMounted
             /\ text1 \in StepTexts
             /\ text2 \in StepTexts
             /\ Idle

\* while (i < lines1.length || j < lines2.length)
DiffLoopCondition ==
    loop.i < Len(Split(text1)) \/ loop.j < Len(Split(text2))

\* computeDiff is called: lines1, lines2, segments = [], i = 0, j = 0
EnterDiffLoop ==
    /\ op = "idle"
    /\ op' = "diffLoop"
    /\ loop' = [i |-> 0, j |-> 0, segments |-> <<>>]
    /\ UNCHANGED <<text1, text2, segments, stats, prev, iters, pdfVars,
                   romanVars, uploadVars, previewVars, formVars>>

\* one iteration of the loop of computeDiff
DiffIteration ==
    /\ op = "diffLoop"
    /\ DiffLoopCondition
    /\ loop' = DiffStep(Split(text1), Split(text2), loop)
    /\ prev' = loop
    /\ iters' = iters + 1
    /\ UNCHANGED <<diffVars, pdfVars, romanVars, uploadVars, previewVars,
                   formVars>>

\* return segments
ReturnDiff ==
    /\ op = "diffLoop"
    /\ ~DiffLoopCondition
    /\ op' = "computeDiff"
    /\ segments' = loop.segments
    /\ UNCHANGED <<text1, text2, stats>>
    /\ UNCHANGED <<loopVars, pdfVars, romanVars, uploadVars, previewVars,
                   formVars>>

\* while (i < text1.length || j < text2.length), not left by a break
InlineLoopCondition ==
    ~loop.brk /\ (loop.i < Len(text1) \/ loop.j < Len(text2))

\* computeInlineDiff is called: segments = [], i = 0, j = 0
EnterInlineLoop ==
    /\ op = "idle"
    /\ op' = "inlineLoop"
    /\ loop' = [i |-> 0, j |-> 0, brk |-> FALSE, segments |-> <<>>]
    /\ UNCHANGED <<text1, text2, segments, stats, prev, iters, pdfVars,
                   romanVars, uploadVars, previewVars, formVars>>

\* one iteration of the loop of computeInlineDiff
InlineIteration ==
    /\ op = "inlineLoop"
    /\ InlineLoopCondition
    /\ loop' = InlineStep(text1, text2, loop)
    /\ prev' = loop
    /\ iters' = iters + 1
    /\ UNCHANGED <<diffVars, pdfVars, romanVars, uploadVars, previewVars,
                   formVars>>

\* return segments
ReturnInline ==
    /\ op = "inlineLoop"
    /\ ~InlineLoopCondition
    /\ op' = "computeInlineDiff"
    /\ segments' = loop.segments
    /\ UNCHANGED <<text1, text2, stats>>
    /\ UNCHANGED <<loopVars, pdfVars, romanVars, uploadVars, previewVars,
                   formVars>>

NextSteps == \/ EnterDiffLoop
             \/ DiffIteration
             \/ ReturnDiff
             \/ EnterInlineLoop
             \/ InlineIteration
             \/ ReturnInline
             \/ CallGetDiffStats

SpecSteps == InitSteps /\ [][NextSteps]_vars

----------------------------------------------------------------------------
(* Properties.                                                             *)

\* the texts of the segments of the given types, in output order
TextsOf(segs, types) ==
    LET kept == SelectSeq(segs, LAMBDA s : s.type \in types)
    IN  [k \in 1..Len(kept) |-> kept[k].text]

RECURSIVE Concat(_)
\* the texts concatenated with no separator
Concat(texts) == IF texts = <<>> THEN <<>> ELSE Head(texts) \o Concat(Tail(texts))

\* the types that occur in a diff
TypesIn(segs) == {segs[k].type : k \in 1..Len(segs)}

\* one unchanged segment per line
AllUnchanged(ls) == [k \in 1..Len(ls) |-> Seg("unchanged", ls[k])]

\* the number of segments of one type
NumOf(segs, type) == Cardinality({k \in 1..Len(segs) : segs[k].type = type})

RECURSIVE LenOfFirst(_, _, _)
\* the summed text length of the segments of one type among the first n
LenOfFirst(segs, type, n) ==
    IF n = 0 THEN 0
    ELSE LenOfFirst(segs, type, n - 1)
         + (IF segs[n].type = type THEN Len(segs[n].text) ELSE 0)

LenOf(segs, type) == LenOfFirst(segs, type, Len(segs))

\* C1: the removed and unchanged lines of computeDiff(text1, text2), joined
\* with "\n" in output order, are text1; the added and unchanged lines are
\* text2.
LineReconstruction ==
    op = "computeDiff" =>
        /\ Join(TextsOf(segments, {"removed", "unchanged"})) = text1
        /\ Join(TextsOf(segments, {"added", "unchanged"})) = text2

\* a line diff with segments of all three types
LineReconstructionWitness ==
    /\ op = "computeDiff"
    /\ TypesIn(segments) = {"added", "removed", "unchanged"}
    /\ Len(Split(text1)) >= 2

\* C2: the removed and unchanged segments of computeInlineDiff(text1, text2),
\* concatenated in output order, are text1; the added and unchanged segments
\* are text2.
InlineReconstruction ==
    op = "computeInlineDiff" =>
        /\ Concat(TextsOf(segments, {"removed", "unchanged"})) = text1
        /\ Concat(TextsOf(segments, {"added", "unchanged"})) = text2

\* a character diff with segments of all three types, an equal run of two
\* characters or more that does not start the texts among them
InlineReconstructionWitness ==
    /\ op = "computeInlineDiff"
    /\ TypesIn(segments) = {"added", "removed", "unchanged"}
    /\ \E k \in 2..Len(segments) :
           segments[k].type = "unchanged" /\ Len(segments[k].text) >= 2

\* C3: for a non-empty text a, computeDiff(a, a) is one unchanged segment per
\* line of a, in order, and nothing else.
Identity ==
    (op = "computeDiff" /\ text1 = text2 /\ text1 # <<>>) =>
        segments = AllUnchanged(Split(text1))

\* a text compared with itself in which a line occurs twice, apart
IdentityWitness ==
    /\ op = "computeDiff"
    /\ text1 = text2
    /\ Len(segments) >= 3
    /\ segments[1].text = segments[3].text
    /\ segments[1].text # segments[2].text

\* C4 as stated: computeDiff("", "") is the empty sequence.
EmptyDiffIsEmpty ==
    (op = "computeDiff" /\ text1 = <<>> /\ text2 = <<>>) => segments = <<>>

\* C4, amended: computeDiff("", "") is one unchanged segment with empty text,
\* the one line that "" splits to.
EmptyDiffIsOneEmptyLine ==
    (op = "computeDiff" /\ text1 = <<>> /\ text2 = <<>>) =>
        segments = <<Seg("unchanged", <<>>)>>

EmptyDiffWitness ==
    op = "computeDiff" /\ text1 = <<>> /\ text2 = <<>> /\ Len(segments) = 1

\* C5 as stated: getDiffStats("", "") has similarity 1 and all five counters 0.
EmptyStatsAllZero ==
    (op = "getDiffStats" /\ text1 = <<>> /\ text2 = <<>>) =>
        stats = [linesAdded |-> 0, linesRemoved |-> 0, linesUnchanged |-> 0,
                 charactersAdded |-> 0, charactersRemoved |-> 0,
                 similarity |-> 100]

\* C5, amended: getDiffStats("", "") has similarity 1, linesUnchanged 1 and
\* the other four counters 0.
EmptyStatsOneUnchangedLine ==
    (op = "getDiffStats" /\ text1 = <<>> /\ text2 = <<>>) =>
        stats = [linesAdded |-> 0, linesRemoved |-> 0, linesUnchanged |-> 1,
                 charactersAdded |-> 0, charactersRemoved |-> 0,
                 similarity |-> 100]

EmptyStatsWitness ==
    /\ op = "getDiffStats"
    /\ text1 = <<>>
    /\ text2 = <<>>
    /\ stats.linesUnchanged = 1
    /\ stats.similarity = 100

\* C6: when text2 is text1 with one line x, which text1 does not contain,
\* inserted between two of its lines, computeDiff yields the lines before as
\* unchanged, then added x, then the lines after as unchanged; so
\* computeDiff("a\nb", "a\nx\nb") = [unchanged "a", added "x", unchanged "b"].
PureInsertion ==
    op = "computeDiff" =>
        LET lines1 == Split(text1)
            lines2 == Split(text2)
        IN  \A k \in 1..(Len(lines1) - 1), x \in Lines :
                (/\ lines2 = InsertAt(lines1, k, x)
                 /\ \A m \in 1..Len(lines1) : lines1[m] # x)
                => segments = AllUnchanged(SubSeq(lines1, 1, k))
                              \o <<Seg("added", x)>>
                              \o AllUnchanged(SubSeq(lines1, k + 1, Len(lines1)))

\* the example of C6
PureInsertionWitness ==
    /\ op = "computeDiff"
    /\ text1 = <<"a", NL, "b">>
    /\ text2 = <<"a", NL, "x", NL, "b">>
    /\ segments = <<Seg("unchanged", <<"a">>), Seg("added", <<"x">>),
                    Seg("unchanged", <<"b">>)>>

\* C7: when text2 is text1 without one of its lines x, not the last, which
\* text2 does not contain, computeDiff yields the lines before as unchanged,
\* then removed x, then the lines after as unchanged; so
\* computeDiff("a\nb\nc", "a\nc") = [unchanged "a", removed "b", unchanged "c"].
PureDeletion ==
    op = "computeDiff" =>
        LET lines1 == Split(text1)
            lines2 == Split(text2)
        IN  \A k \in 1..(Len(lines1) - 1) :
                (/\ lines2 = RemoveAt(lines1, k)
                 /\ \A m \in 1..Len(lines2) : lines2[m] # lines1[k])
                => segments = AllUnchanged(SubSeq(lines1, 1, k - 1))
                              \o <<Seg("removed", lines1[k])>>
                              \o AllUnchanged(SubSeq(lines1, k + 1, Len(lines1)))

\* the example of C7
PureDeletionWitness ==
    /\ op = "computeDiff"
    /\ text1 = <<"a", NL, "b", NL, "c">>
    /\ text2 = <<"a", NL, "c">>
    /\ segments = <<Seg("unchanged", <<"a">>), Seg("removed", <<"b">>),
                    Seg("unchanged", <<"c">>)>>

\* C8: the similarity of getDiffStats lies in [0, 1] (0..100 hundredths).
SimilarityBounds ==
    op = "getDiffStats" => (0 <= stats.similarity /\ stats.similarity <= 100)

\* a similarity strictly between 0 and 1
SimilarityBoundsWitness ==
    op = "getDiffStats" /\ 0 < stats.similarity /\ stats.similarity < 100

\* C9: for texts not both empty the similarity is
\* 2 * (summed text length of the unchanged segments of computeDiff)
\* / (len(text1) + len(text2)) rounded half up to two decimal places, and 1
\* for two empty texts.
SimilarityRoundHalfUp ==
    op = "getDiffStats" =>
        LET unchanged == LenOf(computeDiff(text1, text2), "unchanged")
            total == Len(text1) + Len(text2)
        IN  stats.similarity = IF total = 0 THEN 100
                               ELSE (400 * unchanged + total) \div (2 * total)

\* C10: linesAdded, linesRemoved and linesUnchanged are the numbers of added,
\* removed and unchanged segments of the line diff computeDiff(text1, text2);
\* charactersAdded and charactersRemoved are the summed text lengths of its
\* added and removed segments.
StatisticsFold ==
    op = "getDiffStats" =>
        LET diff == computeDiff(text1, text2)
        IN  /\ stats.linesAdded = NumOf(diff, "added")
            /\ stats.linesRemoved = NumOf(diff, "removed")
            /\ stats.linesUnchanged = NumOf(diff, "unchanged")
            /\ stats.charactersAdded = LenOf(diff, "added")
            /\ stats.charactersRemoved = LenOf(diff, "removed")

\* statistics with all five counters positive, on texts whose character diff
\* has other counts
StatisticsFoldWitness ==
    /\ op = "getDiffStats"
    /\ stats.linesAdded > 0 /\ stats.linesRemoved > 0 /\ stats.linesUnchanged > 0
    /\ stats.charactersAdded > 0 /\ stats.charactersRemoved > 0
    /\ LET inline == computeInlineDiff(text1, text2)
       IN  /\ NumOf(inline, "added") # stats.linesAdded
           /\ NumOf(inline, "removed") # stats.linesRemoved
           /\ NumOf(inline, "unchanged") # stats.linesUnchanged

Hallo == <<"h", "a", "l", "l", "o">>

\* C11 as stated: computeInlineDiff("hello", "hallo") yields three segments,
\* the first unchanged "h" and the last unchanged "llo".
HelloHalloThreeSegments ==
    (op = "computeInlineDiff" /\ text1 = Hello /\ text2 = Hallo) =>
        /\ Len(segments) = 3
        /\ segments[1] = Seg("unchanged", <<"h">>)
        /\ segments[Len(segments)] = Seg("unchanged", <<"l", "l", "o">>)

\* C11, amended: computeInlineDiff("hello", "hallo") yields four segments:
\* unchanged "h", removed "e", added "a", unchanged "llo"; the equal run
\* "llo" is one segment.
HelloHalloFourSegments ==
    (op = "computeInlineDiff" /\ text1 = Hello /\ text2 = Hallo) =>
        segments = <<Seg("unchanged", <<"h">>), Seg("removed", <<"e">>),
                     Seg("added", <<"a">>), Seg("unchanged", <<"l", "l", "o">>)>>

HelloHalloWitness ==
    /\ op = "computeInlineDiff"
    /\ text1 = Hello
    /\ text2 = Hallo
    /\ Len(segments) = 4
    /\ segments[4].text = <<"l", "l", "o">>

\* the latest iteration moved at least one cursor forward
Advanced == loop.i > prev.i \/ loop.j > prev.j

\* a loop never runs more iterations than its two inputs have units (lines
\* for computeDiff, characters for computeInlineDiff), and while it runs it
\* can always either iterate or return
LoopsBounded ==
    /\ op \in {"diffLoop", "computeDiff"} =>
           iters <= Len(Split(text1)) + Len(Split(text2))
    /\ op \in {"inlineLoop", "computeInlineDiff"} =>
           iters <= Len(text1) + Len(text2)
    /\ op = "diffLoop" => (ENABLED DiffIteration \/ ENABLED ReturnDiff)
    /\ op = "inlineLoop" => (ENABLED InlineIteration \/ ENABLED ReturnInline)

\* C12 as stated: the functions return for every pair of texts, and every
\* iteration of either diff loop advances at least one of the two cursors,
\* so a loop ends after at most (units of text1 + units of text2) iterations.
EveryIterationAdvances ==
    /\ (op \in {"diffLoop", "inlineLoop"} /\ iters > 0) => Advanced
    /\ LoopsBounded

\* C12, amended: the functions return for every pair of texts; every
\* iteration of the loop of computeDiff advances at least one cursor, and
\* every iteration of the loop of computeInlineDiff either advances at least
\* one cursor or, with one text exhausted, pushes the rest of the other and
\* breaks with both cursors where they were; either loop ends after at most
\* (units of text1 + units of text2) iterations.
IterationAdvancesOrBreaks ==
    /\ (op = "diffLoop" /\ iters > 0) => Advanced
    /\ (op = "inlineLoop" /\ iters > 0) =>
           \/ Advanced /\ ~loop.brk
           \/ /\ loop.brk
              /\ loop.i = prev.i /\ loop.j = prev.j
              /\ prev.i >= Len(text1) \/ prev.j >= Len(text2)
              /\ Len(loop.segments) = Len(prev.segments) + 1
    /\ LoopsBounded

\* the character loop after an iteration that broke out of it, not the first
IterationBreaksWitness ==
    /\ op = "inlineLoop"
    /\ iters > 1
    /\ loop.brk
    /\ ~Advanced

\* for every pair of texts of InitRuns: the total length, the summed length
\* of the unchanged segments of the line diff, and the similarity
RunStats ==
    {LET t1 == Rep("a", p) \o <<NL>> \o Rep("b", q1)
         t2 == Rep("a", p) \o <<NL>> \o Rep("b", q2)
     IN  [total      |-> Len(t1) + Len(t2),
          unchanged  |-> LenOf(computeDiff(t1, t2), "unchanged"),
          similarity |-> getDiffStats(t1, t2).similarity]
     : p \in 0..MaxRun, q1 \in 0..MaxRun, q2 \in 0..MaxRun}

\* C14: among pairs of texts of the same total length, a pair with at least
\* as many unchanged characters in its line diff has at least the similarity.
SimilarityMonotone ==
    op = "getDiffStats" =>
        LET total == Len(text1) + Len(text2)
            unchanged == LenOf(computeDiff(text1, text2), "unchanged")
        IN  \A r \in RunStats :
                r.total = total =>
                    /\ unchanged <= r.unchanged => stats.similarity <= r.similarity
                    /\ r.unchanged <= unchanged => r.similarity <= stats.similarity

\* a pair of texts for which another pair of the same total length has more
\* unchanged characters and a greater similarity
SimilarityMonotoneWitness ==
    /\ op = "getDiffStats"
    /\ \E r \in RunStats :
           /\ r.total = Len(text1) + Len(text2)
           /\ r.unchanged > LenOf(computeDiff(text1, text2), "unchanged")
           /\ r.similarity > stats.similarity

\* the lines the loop of computeDiff runs over
lines1 == Split(text1)
lines2 == Split(text2)

\* the loop of computeDiff has just run an iteration that found two lines,
\* at prev.i and prev.j, and found them different
MismatchStep ==
    /\ op = "diffLoop"
    /\ iters > 0
    /\ prev.i < Len(lines1)
    /\ prev.j < Len(lines2)
    /\ lines1[prev.i + 1] # lines2[prev.j + 1]

\* the offsets at which lines2[j] occurs in lines1[i+1..], and those at
\* which lines1[i] occurs in lines2[j+1..], for i = prev.i and j = prev.j
Offsets1 ==
    {d \in 0..(Len(lines1) - prev.i - 2) :
        lines1[prev.i + 2 + d] = lines2[prev.j + 1]}
Offsets2 ==
    {d \in 0..(Len(lines2) - prev.j - 2) :
        lines2[prev.j + 2 + d] = lines1[prev.i + 1]}

Min(S) == CHOOSE x \in S : \A y \in S : x <= y

\* what the latest iteration did to the cursors and the segments
EmittedRemoved ==
    loop = [i |-> prev.i + 1, j |-> prev.j,
            segments |-> Append(prev.segments,
                                Seg("removed", lines1[prev.i + 1]))]
EmittedAdded ==
    loop = [i |-> prev.i, j |-> prev.j + 1,
            segments |-> Append(prev.segments,
                                Seg("added", lines2[prev.j + 1]))]
EmittedPair ==
    loop = [i |-> prev.i + 1, j |-> prev.j + 1,
            segments |-> prev.segments
                         \o <<Seg("removed", lines1[prev.i + 1]),
                              Seg("added", lines2[prev.j + 1])>>]

\* C15: when the current lines of computeDiff differ and each occurs later
\* in the other text at the same offset (d1 = d2), the step emits only
\* removed lines1[i] and advances only i.
TieFavoursDeletion ==
    (/\ MismatchStep
     /\ Offsets1 # {} /\ Offsets2 # {}
     /\ Min(Offsets1) = Min(Offsets2)) => EmittedRemoved

\* C16: a step of computeDiff emits removed lines1[i] then added lines2[j]
\* and advances both cursors only when lines2[j] does not occur in
\* lines1[i+1..] and lines1[i] does not occur in lines2[j+1..].
PairOnlyWithoutFutureMatch ==
    (MismatchStep /\ EmittedPair) => (Offsets1 = {} /\ Offsets2 = {})

\* C17: when the current lines of computeDiff differ, if only d1 exists or
\* both exist and d1 < d2 the step emits exactly removed lines1[i] and
\* advances only i; otherwise, if only d2 exists or d2 < d1, it emits
\* exactly added lines2[j] and advances only j.
MismatchResolution ==
    MismatchStep =>
        IF Offsets1 # {}
           /\ (Offsets2 = {} \/ Min(Offsets1) < Min(Offsets2))
        THEN EmittedRemoved
        ELSE (Offsets2 # {}
              /\ (Offsets1 = {} \/ Min(Offsets2) < Min(Offsets1)))
             => EmittedAdded

\* a step that chose between two future matches at different offsets
MismatchResolutionWitness ==
    /\ MismatchStep
    /\ Offsets1 # {} /\ Offsets2 # {}
    /\ Min(Offsets1) # Min(Offsets2)
    /\ EmittedRemoved \/ EmittedAdded

\* a text as the units of a cursor over its characters
Units(text) == [k \in 1..Len(text) |-> <<text[k]>>]

\* the loop of computeDiff over characters: one segment per character
Uncoalesced(a, b) == DiffLoop(Units(a), Units(b), NoLoop)

RECURSIVE MergeUnchanged(_, _)
\* segs with every maximal run of adjacent unchanged segments made one
MergeUnchanged(segs, acc) ==
    IF segs = <<>> THEN acc
    ELSE IF /\ acc # <<>>
            /\ acc[Len(acc)].type = "unchanged"
            /\ Head(segs).type = "unchanged"
    THEN MergeUnchanged(Tail(segs),
             [acc EXCEPT ![Len(acc)] =
                 Seg("unchanged", acc[Len(acc)].text \o Head(segs).text)])
    ELSE MergeUnchanged(Tail(segs), Append(acc, Head(segs)))

RECURSIVE UncoalescedWhileBoth(_, _, _)
\* the loop of computeDiff over characters, stopped when either text is
\* exhausted
UncoalescedWhileBoth(units1, units2, st) ==
    IF st.i < Len(units1) /\ st.j < Len(units2)
    THEN UncoalescedWhileBoth(units1, units2, DiffStep(units1, units2, st))
    ELSE st

\* the merged output of the uncoalesced algorithm up to the exhaustion of
\* either text, then the rest of the other text as one segment
MergedWithRest(a, b) ==
    LET st == UncoalescedWhileBoth(Units(a), Units(b), NoLoop)
        merged == MergeUnchanged(st.segments, <<>>)
    IN  IF st.i < Len(a) THEN Append(merged, Seg("removed", Slice(a, st.i)))
        ELSE IF st.j < Len(b) THEN Append(merged, Seg("added", Slice(b, st.j)))
        ELSE merged

\* C18 as stated: computeInlineDiff(a, b) is the output of the loop of
\* computeDiff run over characters, one segment per character, with each
\* maximal run of adjacent unchanged characters merged into one segment.
InlineIsMergedUncoalesced ==
    op = "computeInlineDiff" =>
        segments = MergeUnchanged(Uncoalesced(text1, text2), <<>>)

\* C18, amended: computeInlineDiff(a, b) is that merged output as long as
\* neither text is exhausted; once one is, computeInlineDiff emits the rest
\* of the other as one added or removed segment, where the uncoalesced
\* algorithm emits one segment per remaining character.
InlineIsMergedUncoalescedWithRest ==
    op = "computeInlineDiff" => segments = MergedWithRest(text1, text2)

\* an inline diff with a merged unchanged run, a resolved mismatch and a
\* rest of more than one character
InlineIsMergedUncoalescedWitness ==
    /\ op = "computeInlineDiff"
    /\ segments # MergeUnchanged(Uncoalesced(text1, text2), <<>>)
    /\ \E k \in 1..Len(segments) :
           segments[k].type = "unchanged" /\ Len(segments[k].text) > 1
    /\ Len(segments) > 2

RECURSIVE LCS(_, _)
\* the length of a longest common subsequence of two sequences of lines
LCS(ls1, ls2) ==
    IF ls1 = <<>> \/ ls2 = <<>> THEN 0
    ELSE IF Head(ls1) = Head(ls2) THEN 1 + LCS(Tail(ls1), Tail(ls2))
    ELSE LET skip1 == LCS(Tail(ls1), ls2)
             skip2 == LCS(ls1, Tail(ls2))
         IN  IF skip1 >= skip2 THEN skip1 ELSE skip2

\* the length of a minimum edit script between the lines of the two texts
MinimumEdits == Len(lines1) + Len(lines2) - 2 * LCS(lines1, lines2)

\* the number of added plus removed segments of the returned diff
EditScriptLength == NumOf(segments, "added") + NumOf(segments, "removed")

\* C19: the edit script of computeDiff is never shorter than a minimum
\* (LCS-based) edit script of the same two texts, and on some inputs, which
\* EditScriptLongerThanMinimum reaches, it is longer.
EditScriptAtLeastMinimum ==
    op = "computeDiff" => EditScriptLength >= MinimumEdits

\* a diff with more added and removed segments than the minimum
EditScriptLongerThanMinimum ==
    /\ op = "computeDiff"
    /\ EditScriptLength > MinimumEdits

\* how many times annotation occurs in a list of annotations
Occurrences(annotations, annotation) ==
    Cardinality({k \in 1..Len(annotations) : annotations[k] = annotation})

\* the annotations of the previewed file in pdfFiles
AnnotationsOf(files, fileId) ==
    LET k == CHOOSE k \in 1..Len(files) : files[k].id = fileId
    IN  files[k].textAnnotations

\* after is before with the annotation at index replaced by edited: edited
\* is in it, the old annotation is in it once less (unless the edit changed
\* nothing), and the length is the same
Replaced(before, after, index, edited) ==
    /\ Len(after) = Len(before)
    /\ Occurrences(after, edited) > 0
    /\ before[index + 1] # edited =>
           Occurrences(after, before[index + 1])
               < Occurrences(before, before[index + 1])

\* C20: when saveTextEdit runs with editingText.index defined and a
\* non-empty text, the annotations of the file, in pdfFiles and in
\* previewFile, afterwards have the old annotation replaced by the edited
\* one: the old one gone, the edited one there, the length the same.
EditReplacesAnnotation ==
    [][(/\ saveTextEdit
        /\ "index" \in DOMAIN editingText
        /\ editingText.text # "")
       => LET edited == [page |-> editingText.page, text |-> editingText.text,
                         x |-> editingText.x, y |-> editingText.y,
                         fontSize |-> FontSize]
          IN  /\ Replaced(previewFile.textAnnotations,
                          previewFile'.textAnnotations,
                          editingText.index, edited)
              /\ Replaced(AnnotationsOf(pdfFiles, previewFile.id),
                          AnnotationsOf(pdfFiles', previewFile.id),
                          editingText.index, edited)]_vars

\* C21: when handleConvert runs in mode toRoman on a number, toRoman takes
\* it exactly when it is in 1..3999 and the numeral is shown; for a number
\* <= 0 or > 3999 the output stays as it was, empty, and the toast shows the
\* error 'Number must be between 1 and 3999'.
RomanRange ==
    [][(/\ romanMode = "toRoman"
        /\ UNCHANGED <<romanMode, input>>
        /\ ~parseInt(input).nan
        /\ handleConvert)
       => IF parseInt(input).value \in 1..3999
          THEN /\ output' # <<>>
               /\ toast' = Toast("Converted successfully", "success")
          ELSE /\ output' = output
               /\ output = <<>>
               /\ toast' = Toast("Number must be between 1 and 3999",
                                 "error")]_vars

\* a number above the range has been refused
RomanRangeWitness ==
    /\ romanMode = "toRoman"
    /\ ~parseInt(input).nan
    /\ parseInt(input).value > 3999
    /\ output = <<>>
    /\ toast = Toast("Number must be between 1 and 3999", "error")

\* C27: the numeral shown for a number n of 1..3999 is read back by
\* fromRoman as n.
RomanRoundTrip ==
    (romanMode = "toRoman" /\ output # <<>>) =>
        /\ parseInt(input).value \in 1..3999
        /\ output = toRoman(parseInt(input).value).value
        /\ fromRoman(output) = Returns(parseInt(input).value)

\* 3888 has been converted, to the longest numeral
RomanRoundTripWitness ==
    /\ romanMode = "toRoman"
    /\ ~parseInt(input).nan
    /\ parseInt(input).value = 3888
    /\ output = <<"M", "M", "M", "D", "C", "C", "C", "L", "X", "X", "X",
                  "V", "I", "I", "I">>

\* C22: for every text a, of one line or of several, the similarity of a
\* with itself is 1.
IdenticalFullySimilar ==
    (op = "getDiffStats" /\ text1 = text2) => stats.similarity = 100

\* C23: no update of pdfFiles is lost on upload: when a call of
\* handleFileSelect finishes, pdfFiles is the pdfFiles of that moment, with
\* every removal, selection and other upload made while the page counts
\* were loading, followed by the new files.
NoLostUpdate ==
    [][\A call \in uploads :
          HandleFileSelectEnd(call)
              => pdfFiles' = pdfFiles \o NewFilesFrom(call.files, call.now, 0)]_vars

\* the ids of the files of pdfFiles
FileIds == {pdfFiles[k].id : k \in 1..Len(pdfFiles)}

\* the pages a file of pdfFiles has
PagesOf(fileId) ==
    UNION {1..pdfFiles[k].pageCount : k \in {m \in 1..Len(pdfFiles) :
                                                pdfFiles[m].id = fileId}}

\* arr strictly ascending with every entry in 1..pageCount
AscendingWithin(arr, pageCount) ==
    /\ \A k \in 1..Len(arr) : arr[k] \in 1..pageCount
    /\ \A k \in 1..(Len(arr) - 1) : arr[k] < arr[k + 1]

\* after, a result of an operation on fileId, has before's files with
\* every file of another id as it was
OthersUnchanged(before, after, fileId) ==
    /\ Len(after) = Len(before)
    /\ \A k \in 1..Len(before) :
          before[k].id # fileId => after[k] = before[k]

\* C28: after any sequence of page selection operations every file's
\* selectedPages is strictly ascending and within 1..pageCount; toggling
\* the same page of a file twice gives back the pdfFiles before; and a
\* toggle, select-all or clear on one file id leaves the files of every
\* other id as they were.
PageSelectionInvariant ==
    /\ \A k \in 1..Len(pdfFiles) :
          AscendingWithin(pdfFiles[k].selectedPages, pdfFiles[k].pageCount)
    /\ \A fileId \in FileIds :
          /\ \A pageNum \in PagesOf(fileId) :
                /\ togglePageSelection(
                       togglePageSelection(pdfFiles, fileId, pageNum),
                       fileId, pageNum) = pdfFiles
                /\ OthersUnchanged(pdfFiles,
                       togglePageSelection(pdfFiles, fileId, pageNum), fileId)
          /\ OthersUnchanged(pdfFiles, selectAllPages(pdfFiles, fileId), fileId)
          /\ OthersUnchanged(pdfFiles, clearSelection(pdfFiles, fileId), fileId)

\* two files, the first with both its pages selected, the second with a
\* selection of its own, made in the preview
PageSelectionWitness ==
    /\ Len(pdfFiles) = 2
    /\ pdfFiles[1].selectedPages = <<1, 2>>
    /\ pdfFiles[2].selectedPages # <<>>

\* the calls of renderPage that are rendering onto the canvas
Rendering == {k \in 1..Len(renders) : renders[k].stage = "render"}

\* C24: at most one call of renderPage is rendering onto the canvas of the
\* preview at any time, whatever pages are changed to meanwhile.
SingleRenderInFlight == Cardinality(Rendering) <= 1

\* the rectangles of two fields have a point in common
Overlapping(a, b) ==
    /\ a.x < b.x + b.width
    /\ b.x < a.x + a.width
    /\ a.y < b.y + b.height
    /\ b.y < a.y + a.height

\* C25: with fields added by addField only, from the empty canvas, the
\* rectangle of every field is disjoint from the rectangle of every field
\* added before it.
AddFieldNeverOverlaps ==
    \A i \in 1..Len(fields) : \A j \in 1..(i - 1) :
        ~Overlapping(fields[i], fields[j])

\* C26: an export emits an element for every field on the canvas, of
\* whatever type of the toolbox: no field is skipped.
EveryFieldExported ==
    [][handleExport
          => \A k \in 1..Len(fields) :
                 \E e \in 1..Len(exported'.elements) :
                     exported'.elements[e].name = fields[k].id]_vars

====
